---------------------------- MODULE Spec2Model ----------------------------
(***************************************************************************)
(* Model of the Contentful Delivery API client (contentful.cda): the       *)
(* ResourceFactory that decodes a JSON response into resources, the Array  *)
(* resource with its items / items_mapped index, and Array.resolve_links,  *)
(* the pass that replaces ResourceLink placeholders by the resources they  *)
(* name.                                                                   *)
(*                                                                         *)
(* Python objects live in a heap: `heap` is a sequence of resources and a  *)
(* resource's address is its index, so that "the very same object" is      *)
(* equality of addresses.  Python lists held by entry fields live in       *)
(* `lists`, keyed by a list id, so that the list shared by an entry's      *)
(* `fields` and its `_cf_cda` storage is one object.  A Python dict whose  *)
(* iteration order matters (the items_mapped buckets) is a sequence of     *)
(* <<key, value>> pairs in insertion order.                                *)
(***************************************************************************)
EXTENDS Integers, Sequences, FiniteSets, TLC

VARIABLES
    json,           \* the JSON document the transport hands to the factory
    resolve_links,  \* Config.resolve_links / RequestArray.resolve_links
    heap,           \* the resources constructed so far, by address
    lists,          \* the Python lists held by entry field slots, by list id
    result,         \* the Array the call returned (None before any call)
    call,           \* the last call made: "none", "invoke", "all", "resolve_links"
    pc,             \* "start", "decoded", "resolved", "raised"
    error,          \* the exception the last call raised, "none" if none
    entry_classes,  \* the Entry subclasses defined so far
    factory,        \* the client's ResourceFactory with its entries_mapping,
                    \* None while no client is constructed
    params,         \* RequestArray.params: the query parameters of the request
    requests,       \* the requests handed to the HTTP client, in order
    conv_value,     \* the `value` handed to convert_value
    conv_field,     \* field.field_type of the `field` handed to convert_value
    todo,           \* the field slots a running resolve_links has yet to visit
    visited,        \* the field slots a running resolve_links visited, in order
    document,       \* a JSON document the caller keeps and hands to from_json
    other           \* a second Array decoded from the document the caller keeps

vars == <<json, resolve_links, heap, lists, result, call, pc, error,
          entry_classes, factory, params, requests, conv_value, conv_field,
          todo, visited, document, other>>

\* The state of the schema registry and the state of a conversion.
schemaVars == <<entry_classes, factory>>
convertVars == <<conv_value, conv_field>>
\* The state of a running resolve_links pass and the state of a caller that
\* decodes one document more than once.
passVars == <<todo, visited>>
reuseVars == <<document, other>>

-----------------------------------------------------------------------------
(* Bounds of the model.                                                    *)

\* Longest `items` list of a response.
MaxItems == 2
\* Longest sequence-valued field of an entry.
MaxListLen == 3
\* Most Entry subclasses a program defines, and most it hands to a client.
MaxClasses == 2

\* Resource ids (sys.id) of the nodes of a response.
Ids == {1, 2}
\* Ids the links of rich entries name: those of nodes, and one of no node.
LinkIds == {1, 2, 3}

-----------------------------------------------------------------------------
(* Python values.                                                          *)

None == [tag |-> "none"]

\* A JSON scalar or mapping that is not a link shape; ty is its Python type.
Raw(ty, v) == [tag |-> "raw", ty |-> ty, v |-> v]

\* A JSON link shape: {'sys': {'type': 'Link', 'linkType': .., 'id': ..}}.
JLink(linkType, id) == [tag |-> "jlink", linkType |-> linkType, id |-> id]

\* A JSON mapping {'sys': {'type': 'Link', ..}} whose sys holds, of the keys
\* 'linkType' and 'id', only those of `keys`.
PartialLink(keys) == [tag |-> "partial_link", keys |-> keys]

\* A JSON list.
JList(elems) == [tag |-> "jlist", elems |-> elems]

\* The address that stands for None where a resource is expected.
NoneAddr == 0

\* A reference to the resource at an address of the heap.
Ref(addr) == [tag |-> "ref", addr |-> addr]

\* A reference to a Python list of `lists`.
ListRef(lid) == [tag |-> "list", lid |-> lid]

IsResourceLink(v) == v.tag = "link"
IsList(v) == v.tag = "list"
IsRef(v) == v.tag = "ref"

\* ResourceLink.__init__: the placeholder keeps the link's id and linkType.
ResourceLink(sys) ==
    [tag |-> "link", link_type |-> sys.linkType, resource_id |-> sys.id]

\* ResourceType: the enum of resource type tags.
ResourceType == {"Array", "Asset", "ContentType", "Entry", "Link", "Space"}

-----------------------------------------------------------------------------
(* Python dicts with insertion order: a sequence of <<key, value>> pairs.  *)

DictKeys(d) == {d[i][1] : i \in DOMAIN d}

DictHas(d, k) == k \in DictKeys(d)

\* dict.get(k, default): the value under k, default when k is no key.
DictGet(d, k, default) ==
    IF DictHas(d, k) THEN d[CHOOSE i \in DOMAIN d : d[i][1] = k][2] ELSE default

\* d[k] = v: a new key is appended, a known key keeps its place.
DictSet(d, k, v) ==
    IF DictHas(d, k)
    THEN [i \in DOMAIN d |-> IF d[i][1] = k THEN <<k, v>> ELSE d[i]]
    ELSE Append(d, <<k, v>>)

\* dict.values(), in iteration order.
DictValues(d) == [i \in DOMAIN d |-> d[i][2]]

-----------------------------------------------------------------------------
(* fields.py: field types and the schema of a custom Entry class.          *)

\* One declared field of a class: Field(field_type, field_id) bound to an
\* attribute; FieldOwner.__new__ defaults field_id to the attribute name.
Field(attr, field_type, field_id) ==
    [attr |-> attr, field_type |-> field_type, field_id |-> field_id]

\* class Cat(Entry) of the test suite: __content_type__ and __entry_fields__.
Cat ==
    [name |-> "Cat",
     content_type |-> "cat",
     entry_fields |-> << Field("name", "Text", "name"),
                         Field("color", "Text", "color"),
                         Field("lives", "Number", "lives"),
                         Field("likes", "List", "likes"),
                         Field("birthday", "Date", "birthday"),
                         Field("best_friend", "Link", "bestFriend") >>]

\* Config.custom_entries of the client under test: DemoClient([Cat]).
custom_entries == << Cat >>

\* ResourceFactory.__init__: content type id -> class, a later class wins.
RECURSIVE EntriesMappingFrom(_, _)
EntriesMappingFrom(classes, i) ==
    IF i = 0 THEN << >>
    ELSE DictSet(EntriesMappingFrom(classes, i - 1),
                 classes[i].content_type, classes[i])

entries_mapping == EntriesMappingFrom(custom_entries, Len(custom_entries))

\* The order in which the keys of an entry's field dicts are iterated.
FieldOrder == << "bestFriend", "likes", "image", "name", "lives" >>

-----------------------------------------------------------------------------
(* serialization.py: convert_value.                                        *)

\* The strings of the model that int() accepts (they are also the integer
\* literals ast.literal_eval accepts).
NumericStrings == {"0", "12", "20130101"}
\* The strings that are a dict literal.
DictLiterals == {"{}", "{'a': 1}"}

\* dateutil.parser.parse: the datetime, named by its str(), of the strings of
\* the model it accepts; a lone day number takes year and month from today.
ParseDate ==
    [s \in {"2013-11-18", "2013-11-18 00:00:00"} |-> "2013-11-18 00:00:00"]
    @@ [s \in {"20130101", "2013-01-01 00:00:00"} |-> "2013-01-01 00:00:00"]
    @@ [s \in {"12", "today-12 00:00:00"} |-> "today-12 00:00:00"]

DateStrings == DOMAIN ParseDate

\* int(value) of a float: truncation.
TruncFloat == [f \in {"0.0", "1.5"} |-> IF f = "0.0" THEN "0" ELSE "1"]

\* str(value) of a Python value, as a token.
StrOf(value) ==
    CASE value.tag = "raw"  -> value.v
      [] value.tag = "none" -> "None"
      [] value.tag = "link" -> "<ResourceLink>"
      [] value.tag = "list" -> "[..]"
      [] OTHER             -> "<object>"

\* bool(value): the lists are looked up in L.
Truthy(value, L) ==
    CASE value.tag = "raw" ->
            CASE value.ty = "str"   -> value.v # ""
              [] value.ty = "int"   -> value.v # "0"
              [] value.ty = "float" -> value.v # "0.0"
              [] value.ty = "bool"  -> value.v = "True"
              [] value.ty = "dict"  -> value.v # "{}"
              [] OTHER             -> TRUE
      [] value.tag = "list" -> Len(L[value.lid]) > 0
      [] value.tag = "none" -> FALSE
      [] OTHER -> TRUE

IsInstance(value, ty) ==
    CASE ty = "list" -> value.tag = "list"
      [] ty = "int"  -> value.tag = "raw" /\ value.ty \in {"int", "bool"}
      [] OTHER       -> value.tag = "raw" /\ value.ty = ty

Returned(v) == [ok |-> TRUE, value |-> v]
Raised(e) == [ok |-> FALSE, error |-> e]

\* int(value) for a value that is no int.
IntOf(value) ==
    IF value.tag = "raw" /\ value.ty = "str"
    THEN IF value.v \in NumericStrings
         THEN Returned(Raw("int", value.v))
         ELSE Raised("ValueError")
    ELSE IF value.tag = "raw" /\ value.ty = "float"
    THEN Returned(Raw("int", TruncFloat[value.v]))
    ELSE Raised("TypeError")

\* ast.literal_eval(value): the value of a literal, whatever its type; a
\* string that is no literal and a value that is no string are refused.
LiteralEval(value) ==
    IF value.tag = "raw" /\ value.ty = "str"
    THEN IF value.v \in DictLiterals THEN Returned(Raw("dict", value.v))
         ELSE IF value.v \in NumericStrings THEN Returned(Raw("int", value.v))
         ELSE IF value.v = "" THEN Raised("SyntaxError")
         ELSE Raised("ValueError")
    ELSE Raised("ValueError")

\* A variant of the conversion that reads a Boolean off the text of the
\* value: true for 'true' and '1', false for anything else.
ConvertValueByText(value, clz, L) ==
    IF clz = "Boolean" /\ ~IsInstance(value, "bool")
    THEN Returned(Raw("bool", IF StrOf(value) \in {"true", "1"} THEN "True" ELSE "False"))
    ELSE Returned(value)

\* ResourceFactory.convert_value(value, field), clz = field.field_type.  A
\* freshly built list [value] is returned as a "newlist" for the caller to
\* store.
ConvertValue(value, clz, L) ==
    CASE clz = "Boolean" ->
            IF ~IsInstance(value, "bool")
            THEN Returned(Raw("bool", IF Truthy(value, L) THEN "True" ELSE "False"))
            ELSE Returned(value)
      [] clz = "Date" ->
            IF StrOf(value) \in DateStrings
            THEN Returned(Raw("datetime", ParseDate[StrOf(value)]))
            ELSE Raised("ValueError")
      [] clz = "Number" ->
            IF ~IsInstance(value, "int") THEN IntOf(value) ELSE Returned(value)
      [] clz = "Object" ->
            IF ~IsInstance(value, "dict") THEN LiteralEval(value) ELSE Returned(value)
      [] clz \in {"Text", "Symbol"} ->
            IF ~IsInstance(value, "str")
            THEN Returned(Raw("str", StrOf(value)))
            ELSE Returned(value)
      [] clz \in {"List", "MultipleAssets", "MultipleEntries"} ->
            IF ~IsInstance(value, "list")
            THEN Returned([tag |-> "newlist", elems |-> << value >>])
            ELSE Returned(value)
      [] OTHER -> Returned(value)

-----------------------------------------------------------------------------
(* serialization.py: ResourceFactory.                                      *)

\* ResourceFactory._extract_link(obj): a placeholder for a link shape, None
\* for anything else.
ExtractLink(obj) ==
    IF obj.tag = "jlink"
    THEN ResourceLink([linkType |-> obj.linkType, id |-> obj.id])
    ELSE None

\* _extract_link(obj) raises: sys.type is 'Link' and ResourceLink.__init__
\* subscripts sys['id'] and sys['linkType'], a KeyError for a missing key.
ExtractLinkRaises(obj) ==
    obj.tag = "partial_link" /\ ~({"id", "linkType"} \subseteq obj.keys)

\* create_entry, lines 76-84: the link scan raises on a value of the fields
\* or on an element of a list value.
LinkScanRaises(jf) ==
    \E k \in DOMAIN jf :
        \/ ExtractLinkRaises(jf[k])
        \/ /\ jf[k].tag = "jlist"
           /\ \E i \in DOMAIN jf[k].elems : ExtractLinkRaises(jf[k].elems[i])

\* The id of the Python list that field k of the entry at addr holds in
\* container c ("fields": the list of the JSON document; "cf_cda": a list
\* convert_value built).
ListId(addr, k, c) == << addr, k, c >>

\* create_entry, lines 76-84: a link-shaped element of a list is replaced in
\* place, every other element is kept.
ExtractLinksOfList(elems) ==
    [i \in DOMAIN elems |->
        IF ExtractLink(elems[i]) # None THEN ExtractLink(elems[i]) ELSE elems[i]]

\* create_entry, lines 76-84: the `fields` dict after the link scan.
ExtractLinksOfFields(jf, addr) ==
    [k \in DOMAIN jf |->
        IF ExtractLink(jf[k]) # None THEN ExtractLink(jf[k])
        ELSE IF jf[k].tag = "jlist" THEN ListRef(ListId(addr, k, "fields"))
        ELSE jf[k]]

\* The Python lists of the `fields` dict after the link scan.
ListsOfFields(jf, addr) ==
    [lid \in {ListId(addr, k, "fields") : k \in {x \in DOMAIN jf : jf[x].tag = "jlist"}}
        |-> ExtractLinksOfList(jf[lid[2]].elems)]

\* create_entry, lines 90-93: setattr(result, k, convert_value(field_value, v))
\* for the declared fields from the i-th on; Field.__set__ stores the value
\* in _cf_cda under the field's field_id.  acc = [ok, error, cf_cda, lists].
RECURSIVE SetEntryFields(_, _, _, _, _)
SetEntryFields(efs, i, fields, addr, acc) ==
    IF i > Len(efs) \/ ~acc.ok THEN acc
    ELSE LET v == efs[i]
             field_value == IF v.field_id \in DOMAIN fields
                            THEN fields[v.field_id] ELSE None
             r == ConvertValue(field_value, v.field_type, acc.lists)
         IN  IF field_value = None
             THEN SetEntryFields(efs, i + 1, fields, addr, acc)
             ELSE IF ~r.ok
             THEN [acc EXCEPT !.ok = FALSE, !.error = r.error]
             ELSE IF r.value.tag = "newlist"
             THEN SetEntryFields(efs, i + 1, fields, addr,
                    [ok |-> TRUE,
                     error |-> "none",
                     cf_cda |-> (v.field_id :> ListRef(ListId(addr, v.field_id, "cf_cda")))
                                    @@ acc.cf_cda,
                     lists |-> (ListId(addr, v.field_id, "cf_cda") :> r.value.elems)
                                    @@ acc.lists])
             ELSE SetEntryFields(efs, i + 1, fields, addr,
                    [acc EXCEPT !.cf_cda = (v.field_id :> r.value) @@ acc.cf_cda])

\* A variant of the class lookup that applies the declared fields of the first
\* class to an entry of any content type.
TypedFieldsOfAny(ct, fields, addr, L) ==
    SetEntryFields(custom_entries[1].entry_fields, 1, fields, addr,
                   [ok |-> TRUE, error |-> "none", cf_cda |-> << >>, lists |-> L])

\* create_entry, lines 86-95: result = clazz() with its declared fields set
\* when the content type has a registered class, else result = Entry():
\* [ok, error, cf_cda, lists].
TypedFields(ct, fields, addr, L) ==
    IF DictHas(entries_mapping, ct)
    THEN SetEntryFields(DictGet(entries_mapping, ct, None).entry_fields, 1, fields, addr,
                        [ok |-> TRUE, error |-> "none", cf_cda |-> << >>, lists |-> L])
    ELSE [ok |-> TRUE, error |-> "none", cf_cda |-> << >>, lists |-> L]

\* The class create_entry instantiates for a content type.
ClassFor(ct) ==
    IF DictHas(entries_mapping, ct) THEN DictGet(entries_mapping, ct, None).name ELSE "Entry"

\* create_entry, lines 97-101: the entry with its sys, fields and raw_fields
\* (the deep copy of the JSON fields) set.
EntryResult(node, fields, set) ==
    [ok |-> set.ok,
     error |-> set.error,
     obj |-> [cls |-> ClassFor(node.sys.contentType),
              sys |-> node.sys,
              fields |-> fields,
              raw_fields |-> node.fields,
              cf_cda |-> set.cf_cda],
     lists |-> set.lists]

\* ResourceFactory.create_entry(json): [ok, error, obj, lists].  The object is
\* built at address addr.
CreateEntry(node, addr, L) ==
    IF LinkScanRaises(node.fields)
    THEN [ok |-> FALSE, error |-> "KeyError", obj |-> None, lists |-> L]
    ELSE EntryResult(node,
                     ExtractLinksOfFields(node.fields, addr),
                     TypedFields(node.sys.contentType,
                                 ExtractLinksOfFields(node.fields, addr), addr,
                                 ListsOfFields(node.fields, addr) @@ L))

\* ResourceFactory.create_asset(json); an Asset's fields dict stays empty.
CreateAsset(node) ==
    [cls |-> "Asset", sys |-> node.sys, fields |-> << >>]

\* ResourceFactory.create_content_type(json).
CreateContentType(node) ==
    [cls |-> "ContentType", sys |-> node.sys]

\* ResourceFactory.create_space(json).
CreateSpace(node) ==
    [cls |-> "Space", sys |-> node.sys]

\* isinstance(obj, Entry): Entry itself or a registered subclass of it.
IsEntry(obj) == obj # None /\ obj.cls \notin {"Asset", "ContentType", "Space", "Array"}
IsAsset(obj) == obj # None /\ obj.cls = "Asset"

\* ResourceFactory.from_json(json) for the nodes an array holds:
\* [ok, error, obj, lists], obj = None for a type tag no branch takes.
FromJson(node, addr, L) ==
    LET res_type == node.sys.type
    IN  CASE res_type = "Entry"       -> CreateEntry(node, addr, L)
          [] res_type = "Asset"       -> [ok |-> TRUE, error |-> "none", obj |-> CreateAsset(node), lists |-> L]
          [] res_type = "ContentType" -> [ok |-> TRUE, error |-> "none", obj |-> CreateContentType(node), lists |-> L]
          [] res_type = "Space"       -> [ok |-> TRUE, error |-> "none", obj |-> CreateSpace(node), lists |-> L]
          [] OTHER                    -> [ok |-> TRUE, error |-> "none", obj |-> None, lists |-> L]

\* A variant of the assignment that keeps the resource a bucket already holds
\* under the id (dict.setdefault).
MappedSetDefault(items_mapped, key, id, addr) ==
    IF DictHas(items_mapped[key], id)
    THEN items_mapped
    ELSE [items_mapped EXCEPT ![key] = DictSet(items_mapped[key], id, addr)]

\* items_mapped[key][id] = addr.
MappedSet(items_mapped, key, id, addr) ==
    [items_mapped EXCEPT ![key] = DictSet(items_mapped[key], id, addr)]

\* isinstance dispatch of process_array_items, lines 200-203.
KeyOf(obj) ==
    IF IsAsset(obj) THEN "Asset" ELSE IF IsEntry(obj) THEN "Entry" ELSE "None"

\* process_array_items, lines 200-208, for one processed item built at addr:
\* map it under its key and id, append it to items.
\* array = [ok, error, items, items_mapped, heap, lists].
StoreItem(array, processed, addr) ==
    IF ~processed.ok
    THEN [array EXCEPT !.ok = FALSE, !.error = processed.error]
    ELSE [ok |-> TRUE,
          error |-> "none",
          items |-> Append(array.items,
                           IF processed.obj = None THEN NoneAddr ELSE addr),
          items_mapped |-> IF KeyOf(processed.obj) # "None"
                           THEN MappedSet(array.items_mapped, KeyOf(processed.obj),
                                          processed.obj.sys.id, addr)
                           ELSE array.items_mapped,
          heap |-> IF processed.obj = None THEN array.heap
                   ELSE Append(array.heap, processed.obj),
          lists |-> processed.lists]

\* ResourceFactory.process_array_items(array, json), from the i-th item on.
RECURSIVE ProcessArrayItems(_, _, _)
ProcessArrayItems(array, items, i) ==
    IF i > Len(items) \/ ~array.ok THEN array
    ELSE ProcessArrayItems(
            StoreItem(array,
                      FromJson(items[i], Len(array.heap) + 1, array.lists),
                      Len(array.heap) + 1),
            items, i + 1)

\* A variant of the includes step that also appends the resource to items.
StoreIncludeListed(array, key, processed, addr) ==
    IF ~processed.ok
    THEN [array EXCEPT !.ok = FALSE, !.error = processed.error]
    ELSE IF processed.obj = None
    THEN [array EXCEPT !.ok = FALSE, !.error = "AttributeError"]
    ELSE [ok |-> TRUE,
          error |-> "none",
          items |-> Append(array.items, addr),
          items_mapped |-> [array.items_mapped EXCEPT
                                ![key] = DictSet(array.items_mapped[key],
                                                 processed.obj.sys.id, addr)],
          heap |-> Append(array.heap, processed.obj),
          lists |-> processed.lists]

\* process_array_includes, lines 222-223, for one processed resource built at
\* addr: store it in the bucket `key` under its id; processed.sys raises for
\* None.
StoreInclude(array, key, processed, addr) ==
    IF ~processed.ok
    THEN [array EXCEPT !.ok = FALSE, !.error = processed.error]
    ELSE IF processed.obj = None
    THEN [array EXCEPT !.ok = FALSE, !.error = "AttributeError"]
    ELSE [ok |-> TRUE,
          error |-> "none",
          items |-> array.items,
          items_mapped |-> MappedSet(array.items_mapped, key,
                                     processed.obj.sys.id, addr),
          heap |-> Append(array.heap, processed.obj),
          lists |-> processed.lists]

\* process_array_includes, lines 221-223: the resources of includes[key],
\* from the i-th on.
RECURSIVE ProcessIncludesOf(_, _, _, _)
ProcessIncludesOf(array, key, resources, i) ==
    IF i > Len(resources) \/ ~array.ok THEN array
    ELSE ProcessIncludesOf(
            StoreInclude(array, key,
                         FromJson(resources[i], Len(array.heap) + 1, array.lists),
                         Len(array.heap) + 1),
            key, resources, i + 1)

\* The keys of items_mapped in iteration order.
MappedKeys == << "Asset", "Entry" >>

\* ResourceFactory.process_array_includes(array, json), from the i-th key of
\* items_mapped on; includes = json.get('includes') or {}.
RECURSIVE ProcessArrayIncludes(_, _, _)
ProcessArrayIncludes(array, includes, i) ==
    IF i > Len(MappedKeys) THEN array
    ELSE LET key == MappedKeys[i]
         IN  ProcessArrayIncludes(
                IF key \in DOMAIN includes
                THEN ProcessIncludesOf(array, key, includes[key], 1)
                ELSE array,
                includes, i + 1)

\* ResourceFactory.create_array(json):
\* [ok, error, items, items_mapped, heap, lists].
CreateArray(node) ==
    LET empty == [ok |-> TRUE,
                  error |-> "none",
                  items |-> << >>,
                  items_mapped |-> [Asset |-> << >>, Entry |-> << >>],
                  heap |-> << >>,
                  lists |-> << >>]
    IN  ProcessArrayIncludes(ProcessArrayItems(empty, node.items, 1), node.includes, 1)

-----------------------------------------------------------------------------
(* resources.py: Array.resolve_links.                                      *)

\* Array._resolve_resource_link(link):
\* self.items_mapped[link.link_type].get(link.resource_id); the subscript
\* raises KeyError for a link type that is no key of items_mapped.
ResolveResourceLink(items_mapped, link) ==
    IF link.link_type \in DOMAIN items_mapped
    THEN Returned(DictGet(items_mapped[link.link_type], link.resource_id, NoneAddr))
    ELSE Raised("KeyError")

\* A variant of the element store without the `is not None` test.
StoreElementAlways(S, lid, idx, resolved) ==
    [S EXCEPT !.lists[lid][idx] = Ref(resolved)]

\* resolve_links, lines 110-111: if resolved is not None: v[idx] = resolved.
StoreElement(S, lid, idx, resolved) ==
    IF resolved # NoneAddr
    THEN [S EXCEPT !.lists[lid][idx] = Ref(resolved)]
    ELSE S

\* A variant of the scalar store without the `is not None` test: a failed
\* lookup overwrites the placeholder.
StoreFieldAlways(S, addr, c, k, resolved) ==
    [S EXCEPT !.heap[addr][c][k] = Ref(resolved)]

\* resolve_links, lines 102-103: if resolved is not None: dct[k] = resolved.
StoreField(S, addr, c, k, resolved) ==
    IF resolved # NoneAddr
    THEN [S EXCEPT !.heap[addr][c][k] = Ref(resolved)]
    ELSE S

\* The pass stops with the exception a lookup raised.
Abort(S, e) == [S EXCEPT !.ok = FALSE, !.error = e]

\* A variant of the list loop with `continue` in place of `break`: it skips
\* an element that is no placeholder and goes on.
RECURSIVE ResolveListContinue(_, _, _, _)
ResolveListContinue(S, items_mapped, lid, idx) ==
    IF idx > Len(S.lists[lid]) \/ ~S.ok THEN S
    ELSE IF ~IsResourceLink(S.lists[lid][idx])
    THEN ResolveListContinue(S, items_mapped, lid, idx + 1)
    ELSE IF S.lists[lid][idx].link_type \notin DOMAIN items_mapped
    THEN [S EXCEPT !.ok = FALSE, !.error = "KeyError"]
    ELSE ResolveListContinue(
            IF DictHas(items_mapped[S.lists[lid][idx].link_type],
                       S.lists[lid][idx].resource_id)
            THEN [S EXCEPT !.lists[lid][idx] =
                      Ref(DictGet(items_mapped[S.lists[lid][idx].link_type],
                                  S.lists[lid][idx].resource_id, NoneAddr))]
            ELSE S,
            items_mapped, lid, idx + 1)

\* resolve_links, lines 105-111: the elements of list lid from index idx on;
\* the loop breaks at the first element that is no placeholder.
\* S = [ok, error, heap, lists].
RECURSIVE ResolveListFrom(_, _, _, _)
ResolveListFrom(S, items_mapped, lid, idx) ==
    IF idx > Len(S.lists[lid]) \/ ~S.ok THEN S
    ELSE IF ~IsResourceLink(S.lists[lid][idx]) THEN S
    ELSE IF ~ResolveResourceLink(items_mapped, S.lists[lid][idx]).ok
    THEN Abort(S, ResolveResourceLink(items_mapped, S.lists[lid][idx]).error)
    ELSE ResolveListFrom(
            StoreElement(S, lid, idx,
                         ResolveResourceLink(items_mapped, S.lists[lid][idx]).value),
            items_mapped, lid, idx + 1)

\* resolve_links, lines 100-111, for the value v under key k of dict c
\* ("cf_cda" or "fields") of the resource at addr.
ResolveSlot(S, items_mapped, addr, c, k, v) ==
    IF IsResourceLink(v)
    THEN IF ~ResolveResourceLink(items_mapped, v).ok
         THEN Abort(S, ResolveResourceLink(items_mapped, v).error)
         ELSE StoreField(S, addr, c, k, ResolveResourceLink(items_mapped, v).value)
    ELSE IF IsList(v)
    THEN ResolveListFrom(S, items_mapped, v.lid, 1)
    ELSE S

\* resolve_links, line 99: for k, v in dct.items(), from the i-th key of
\* `keys` on.
RECURSIVE ResolveDictFrom(_, _, _, _, _, _)
ResolveDictFrom(S, items_mapped, addr, c, keys, i) ==
    IF i > Len(keys) \/ ~S.ok THEN S
    ELSE ResolveDictFrom(
            ResolveSlot(S, items_mapped, addr, c, keys[i], S.heap[addr][c][keys[i]]),
            items_mapped, addr, c, keys, i + 1)

\* The keys of a field dict in iteration order.
KeysOf(dct) == SelectSeq(FieldOrder, LAMBDA k : k \in DOMAIN dct)

\* resolve_links, line 98, second dict: resource.fields; a resource with no
\* `fields` attribute raises (a ContentType's fields hold no placeholder).
ResolveFieldsOf(S, items_mapped, addr) ==
    IF "fields" \in DOMAIN S.heap[addr]
    THEN ResolveDictFrom(S, items_mapped, addr, "fields",
                         KeysOf(S.heap[addr].fields), 1)
    ELSE IF S.heap[addr].cls = "ContentType" \/ ~S.ok THEN S
    ELSE [S EXCEPT !.ok = FALSE, !.error = "AttributeError"]

\* A variant of the pass that looks at resource.fields only.
FieldsOnly(S, items_mapped, addr) == S

\* resolve_links, line 98, first dict: getattr(resource, '_cf_cda', {}).
ResolveTypedOf(S, items_mapped, addr) ==
    IF "cf_cda" \in DOMAIN S.heap[addr]
    THEN ResolveDictFrom(S, items_mapped, addr, "cf_cda",
                         KeysOf(S.heap[addr].cf_cda), 1)
    ELSE S

\* resolve_links, lines 98-111, for one resource: its typed storage, then its
\* raw field mapping.
ResolveResource(S, items_mapped, addr) ==
    ResolveFieldsOf(ResolveTypedOf(S, items_mapped, addr), items_mapped, addr)

\* resolve_links, line 97: for resource in self.items_mapped['Entry'].values(),
\* from the i-th on.
RECURSIVE ResolveEntriesFrom(_, _, _, _)
ResolveEntriesFrom(S, items_mapped, resources, i) ==
    IF i > Len(resources) \/ ~S.ok THEN S
    ELSE ResolveEntriesFrom(ResolveResource(S, items_mapped, resources[i]),
                            items_mapped, resources, i + 1)

\* Array.resolve_links() on the array with this index over this heap:
\* [ok, error, heap, lists]; what was replaced before an exception stays
\* replaced.
ArrayResolveLinks(items_mapped, h, L) ==
    ResolveEntriesFrom([ok |-> TRUE, error |-> "none", heap |-> h, lists |-> L],
                       items_mapped, DictValues(items_mapped.Entry), 1)

-----------------------------------------------------------------------------
(* The JSON documents the transport hands over.                            *)

EntryNode(id, ct, fields) ==
    [sys |-> [type |-> "Entry", id |-> id, contentType |-> ct], fields |-> fields]

AssetNode(id) == [sys |-> [type |-> "Asset", id |-> id], fields |-> << >>]

ContentTypeNode(id) == [sys |-> [type |-> "ContentType", id |-> id], fields |-> << >>]

\* Content type ids of entries: one with a registered class, one without.
ContentTypes == {"cat", "dog"}

\* All sequences over S of length lo..hi.
SeqsOf(S, lo, hi) == UNION {[1..n -> S] : n \in lo..hi}

\* Field mappings with at most one scalar field.
SimpleFields ==
    { << >> }
    \cup {[bestFriend |-> JLink("Entry", i)] : i \in Ids}
    \cup {[bestFriend |-> JLink("ContentType", 1)]}

\* Field mappings with two scalar link fields, with two sequence fields, or
\* with a single link in a field declared a List.
RichFields ==
    {[bestFriend |-> JLink("Entry", i), image |-> l] :
        i \in LinkIds, l \in {JLink("Asset", 1), JLink("Asset", 2), JLink("Entry", 1)}}
    \cup {[likes |-> JList(l),
            image |-> JList(<< Raw("str", "abc"), JLink("Entry", 1) >>)] :
            l \in SeqsOf({Raw("str", "abc"), JLink("Entry", 1)}, 1, MaxListLen)}
    \cup {[likes |-> JLink("Entry", i)] : i \in Ids}

SimpleEntryNodes ==
    {EntryNode(i, ct, f) : i \in Ids, ct \in ContentTypes, f \in SimpleFields}

RichEntryNodes ==
    {EntryNode(i, ct, f) : i \in Ids, ct \in ContentTypes, f \in RichFields}

SimpleNodes ==
    SimpleEntryNodes \cup {AssetNode(i) : i \in Ids} \cup {ContentTypeNode(1)}

\* The `includes` of a response: absent, or Asset and/or Entry lists.
Includes ==
    LET assets == {<< >>} \cup {[Asset |-> << AssetNode(1) >>]}
        entries == {<< >>}
                   \cup {[Entry |-> << EntryNode(i, "cat", f) >>] :
                            i \in Ids, f \in {<< >>, [bestFriend |-> JLink("Entry", 1)]}}
    IN  {a @@ e : a \in assets, e \in entries}

\* Array responses: up to MaxItems simple nodes, or one rich entry next to
\* at most one simple entry.
Documents ==
    {[items |-> it, includes |-> inc] :
        it \in SeqsOf(SimpleNodes, 0, MaxItems)
               \cup {<< r >> : r \in RichEntryNodes}
               \cup {<< r, n >> : r \in RichEntryNodes, n \in SimpleEntryNodes}
               \cup {<< n, r >> : r \in RichEntryNodes, n \in SimpleEntryNodes},
        inc \in Includes}

\* A node whose type tag names no resource kind.
UnknownNode(id) == [sys |-> [type |-> "Webhook", id |-> id], fields |-> << >>]

\* Field mappings with values for the declared fields of Cat that need, or
\* defy, coercion, and with complete and partial link shapes.
TypedFieldMaps ==
    { << >> }
    \cup {[lives |-> v] : v \in {Raw("int", "12"), Raw("str", "12"), Raw("str", "abc")}}
    \cup {[name |-> v] : v \in {Raw("int", "12"), Raw("str", "abc")}}
    \cup {[likes |-> v] : v \in {Raw("str", "abc"), JLink("Entry", 1)}}
    \cup {[name |-> JLink("Entry", 1)]}
    \cup {[bestFriend |-> l] :
            l \in {JLink("Entry", 1), PartialLink({"id"}), PartialLink({"linkType"}),
                   Raw("dict", "{'a': 1}")}}
    \cup {[likes |-> JList(<< JLink("Entry", 1), PartialLink({}) >>)]}
    \cup {[lives |-> Raw("str", "12"), bestFriend |-> JLink("Entry", i)] : i \in Ids}

\* The field mappings of entries of the content type with no class.
UntypedFieldMaps ==
    {<< >>, [lives |-> Raw("str", "abc")], [bestFriend |-> JLink("Entry", 1)],
     [lives |-> Raw("str", "12"), bestFriend |-> JLink("Entry", 1)]}

TypedNodes ==
    {EntryNode(i, "cat", f) : i \in Ids, f \in TypedFieldMaps}
    \cup {EntryNode(i, "dog", f) : i \in Ids, f \in UntypedFieldMaps}
    \cup {AssetNode(1), UnknownNode(1)}

\* Array responses of one to MaxItems such nodes, without includes.
TypedDocuments ==
    {[items |-> it, includes |-> << >>] : it \in SeqsOf(TypedNodes, 1, MaxItems)}

-----------------------------------------------------------------------------
(* The state machine: one request, invoked through Request.invoke() or     *)
(* RequestArray.all(), and Array.resolve_links() called on a returned      *)
(* array.                                                                  *)

Init ==
    /\ json \in Documents
    /\ resolve_links \in BOOLEAN
    /\ heap = << >>
    /\ lists = << >>
    /\ result = None
    /\ call = "none"
    /\ pc = "start"
    /\ error = "none"
    /\ entry_classes = custom_entries
    /\ factory = [tag |-> "factory", entries_mapping |-> entries_mapping]
    /\ params = << >>
    /\ requests = << >>
    /\ conv_value = None
    /\ conv_field = "none"
    /\ todo = << >>
    /\ visited = << >>
    /\ document = None
    /\ other = None

\* The same client before a request whose response holds typed entries.
InitTyped ==
    /\ json \in TypedDocuments
    /\ resolve_links \in BOOLEAN
    /\ heap = << >>
    /\ lists = << >>
    /\ result = None
    /\ call = "none"
    /\ pc = "start"
    /\ error = "none"
    /\ entry_classes = custom_entries
    /\ factory = [tag |-> "factory", entries_mapping |-> entries_mapping]
    /\ params = << >>
    /\ requests = << >>
    /\ conv_value = None
    /\ conv_field = "none"
    /\ todo = << >>
    /\ visited = << >>
    /\ document = None
    /\ other = None

\* The Array resource: its items and its items_mapped.
ArrayOf(array) == [items |-> array.items, items_mapped |-> array.items_mapped]

\* The call raised: no array is returned.
ReturnRaised(e) ==
    /\ result' = None
    /\ heap' = << >>
    /\ lists' = << >>
    /\ pc' = "raised"
    /\ error' = e

\* The call returns the decoded array, its links unresolved.
ReturnDecoded(array) ==
    IF array.ok
    THEN /\ result' = ArrayOf(array)
         /\ heap' = array.heap
         /\ lists' = array.lists
         /\ pc' = "decoded"
         /\ error' = "none"
    ELSE ReturnRaised(array.error)

\* Array.resolve_links() has run, leaving S: what it replaced before an
\* exception stays replaced.
ReturnResolved(S) ==
    /\ heap' = S.heap
    /\ lists' = S.lists
    /\ pc' = IF S.ok THEN "resolved" ELSE "raised"
    /\ error' = S.error

\* Request.invoke() -> Dispatcher.invoke(): resource_factory.from_json(r.json())
\* of an Array response.
Invoke ==
    /\ pc = "start"
    /\ call' = "invoke"
    /\ ReturnDecoded(CreateArray(json))
    /\ requests' = Append(requests, params)
    /\ UNCHANGED <<json, resolve_links, params, schemaVars, convertVars, passVars, reuseVars>>

\* Array.resolve_links() called by the user on an array that was returned
\* with its links unresolved.
ResolveLinks ==
    /\ pc = "decoded"
    /\ call' = "resolve_links"
    /\ ReturnResolved(ArrayResolveLinks(result.items_mapped, heap, lists))
    /\ UNCHANGED <<json, resolve_links, result, params, requests, schemaVars, convertVars, passVars, reuseVars>>

\* A variant of all() that resolves whatever the policy says.
ResolveAlways(array) ==
    IF array.ok
    THEN /\ heap' = ArrayResolveLinks(array.items_mapped, array.heap, array.lists).heap
         /\ lists' = ArrayResolveLinks(array.items_mapped, array.heap, array.lists).lists
         /\ pc' = IF ArrayResolveLinks(array.items_mapped, array.heap, array.lists).ok
                  THEN "resolved" ELSE "raised"
         /\ error' = ArrayResolveLinks(array.items_mapped, array.heap, array.lists).error
         /\ result' = IF pc' = "resolved"
                      THEN [items |-> array.items, items_mapped |-> array.items_mapped]
                      ELSE None
    ELSE /\ result' = None
         /\ heap' = << >>
         /\ lists' = << >>
         /\ pc' = "raised"
         /\ error' = array.error

\* RequestArray.all(), lines 269-272, on the array invoke() returned; an
\* exception of resolve_links leaves the caller without a result.
ResolveIfConfigured(array) ==
    IF array.ok /\ resolve_links
    THEN /\ ReturnResolved(ArrayResolveLinks(array.items_mapped, array.heap, array.lists))
         /\ result' = IF pc' = "resolved" THEN ArrayOf(array) ELSE None
    ELSE ReturnDecoded(array)

\* RequestArray.all(): result = self.invoke(); if self.resolve_links:
\* result.resolve_links(); return result.
All ==
    /\ pc = "start"
    /\ call' = "all"
    /\ ResolveIfConfigured(CreateArray(json))
    /\ requests' = Append(requests, params)
    /\ UNCHANGED <<json, resolve_links, params, schemaVars, convertVars, passVars, reuseVars>>

Next == Invoke \/ ResolveLinks \/ All

Spec == Init /\ [][Next]_vars

SpecTyped == InitTyped /\ [][Next]_vars

\* Array.resolve_links() called once more on an array whose links were
\* resolved, by the user or by all().
ResolveLinksAgain ==
    /\ pc = "resolved"
    /\ call # "resolve_links_again"
    /\ call' = "resolve_links_again"
    /\ ReturnResolved(ArrayResolveLinks(result.items_mapped, heap, lists))
    /\ UNCHANGED <<json, resolve_links, result, params, requests, schemaVars, convertVars,
                   passVars, reuseVars>>

NextAgain == Invoke \/ ResolveLinks \/ All \/ ResolveLinksAgain

SpecAgain == Init /\ [][NextAgain]_vars

-----------------------------------------------------------------------------
(* Schema registration: the metaclass FieldOwner runs when an Entry        *)
(* subclass is defined, Client.__init__ validates the classes handed to it *)
(* as custom_entries and builds the ResourceFactory.                       *)

\* A Field(field_type) class attribute, its field_id left to default.
FieldAttr(field_type) == [tag |-> "field", field_type |-> field_type, field_id |-> None]

\* The class bodies of the model: with or without __content_type__ (None,
\* empty, or an id), with or without a declared field.
ClassAttrs ==
    LET ct == {<< >>}
              \cup {[__content_type__ |-> v] :
                        v \in {None, Raw("str", ""), Raw("str", "cat"), Raw("str", "dog")}}
        fs == {<< >>, [lives |-> FieldAttr("Number")]}
    IN  {c @@ f : c \in ct, f \in fs}

ClassNames == {"Entry", "Cat", "Dog"}

\* resources.Entry itself, and a resource class that is no Entry.
EntryClass == [name |-> "Entry", module |-> "contentful.cda.resources", entry_fields |-> << >>]
AssetClass == [name |-> "Asset", module |-> "contentful.cda.resources"]

\* FieldOwner.__new__, lines 78-83: the Field attributes, field_id defaulted
\* to the attribute name.
EntryFieldsOf(attrs) ==
    LET names == SelectSeq(FieldOrder,
                           LAMBDA n : n \in DOMAIN attrs /\ attrs[n].tag = "field")
    IN  [i \in DOMAIN names |->
            Field(names[i], attrs[names[i]].field_type,
                  IF attrs[names[i]].field_id = None THEN names[i]
                  ELSE attrs[names[i]].field_id)]

\* FieldOwner.__new__, lines 75-85: the __content_type__ the scan of attrs
\* finds for a class not named 'Entry'.
ContentTypeIdOf(name, attrs) ==
    IF name # "Entry" /\ "__content_type__" \in DOMAIN attrs
                     /\ attrs["__content_type__"].tag # "field"
    THEN attrs["__content_type__"]
    ELSE None

\* The class object type.__new__ builds: its attributes are those of attrs.
ClassOf(name, attrs) ==
    IF "__content_type__" \in DOMAIN attrs /\ attrs["__content_type__"].tag = "raw"
    THEN [name |-> name, module |-> "__main__",
          content_type |-> attrs["__content_type__"].v,
          entry_fields |-> EntryFieldsOf(attrs)]
    ELSE [name |-> name, module |-> "__main__", entry_fields |-> EntryFieldsOf(attrs)]

\* FieldOwner.__new__(mcs, name, bases, attrs).
FieldOwnerNew(name, attrs) ==
    IF name # "Entry" /\ ContentTypeIdOf(name, attrs) = None
    THEN Raised("AttributeError")
    ELSE Returned(ClassOf(name, attrs))

\* Client.validate_config, lines 65-70, for the classes from the i-th on.
RECURSIVE ValidateConfigFrom(_, _)
ValidateConfigFrom(ce, i) ==
    IF i > Len(ce) THEN Returned(ce)
    ELSE IF ce[i] = AssetClass THEN Raised("Exception")
    ELSE IF ce[i] = EntryClass THEN Raised("Exception")
    ELSE ValidateConfigFrom(ce, i + 1)

\* ResourceFactory.__init__, lines 28-32: c.__content_type__ raises for a
\* class without the attribute.
FactoryInit(ce) ==
    IF \E i \in DOMAIN ce : "content_type" \notin DOMAIN ce[i]
    THEN Raised("AttributeError")
    ELSE Returned(EntriesMappingFrom(ce, Len(ce)))

\* Client.__init__, lines 46-49: validate_config(config), then
\* Dispatcher(config, requests), which builds the ResourceFactory.
ClientInit(ce) ==
    IF ~ValidateConfigFrom(ce, 1).ok THEN ValidateConfigFrom(ce, 1) ELSE FactoryInit(ce)

\* A program that has defined no class and constructed no client.
InitRegister ==
    /\ json = None
    /\ resolve_links = TRUE
    /\ heap = << >>
    /\ lists = << >>
    /\ result = None
    /\ call = "none"
    /\ pc = "start"
    /\ error = "none"
    /\ entry_classes = << >>
    /\ factory = None
    /\ params = << >>
    /\ requests = << >>
    /\ conv_value = None
    /\ conv_field = "none"
    /\ todo = << >>
    /\ visited = << >>
    /\ document = None
    /\ other = None

\* The outcome of a call that returned or raised.
Outcome(r, done) ==
    /\ pc' = IF r.ok THEN done ELSE "raised"
    /\ error' = IF r.ok THEN "none" ELSE r.error

\* class <name>(Entry): <attrs> is executed.
DefineClass ==
    \E name \in ClassNames, attrs \in ClassAttrs :
        /\ factory = None
        /\ Len(entry_classes) < MaxClasses
        /\ call' = "class"
        /\ Outcome(FieldOwnerNew(name, attrs), "defined")
        /\ entry_classes' = IF FieldOwnerNew(name, attrs).ok
                            THEN Append(entry_classes, FieldOwnerNew(name, attrs).value)
                            ELSE entry_classes
        /\ UNCHANGED <<json, resolve_links, heap, lists, result, factory,
                       params, requests, convertVars, passVars, reuseVars>>

\* The classes a program can hand to a client.
ClassPool == {entry_classes[i] : i \in DOMAIN entry_classes} \cup {EntryClass, AssetClass}

\* Client(space_id, access_token, custom_entries=ce).
NewClient ==
    \E ce \in SeqsOf(ClassPool, 0, MaxClasses) :
        /\ factory = None
        /\ call' = "client"
        /\ Outcome(ClientInit(ce), "constructed")
        /\ factory' = IF ClientInit(ce).ok
                      THEN [tag |-> "factory", entries_mapping |-> ClientInit(ce).value]
                      ELSE None
        /\ UNCHANGED <<json, resolve_links, heap, lists, result, entry_classes,
                       params, requests, convertVars, passVars, reuseVars>>

\* create_entry, lines 86-88 and 95, for an entry of content type ct: the
\* name of the class it instantiates.
LookupClass ==
    \E ct \in {"", "cat", "dog"} :
        /\ factory # None
        /\ call' = "create_entry"
        /\ pc' = "decoded"
        /\ error' = "none"
        /\ result' = IF DictHas(factory.entries_mapping, ct)
                     THEN Raw("class", DictGet(factory.entries_mapping, ct, None).name)
                     ELSE Raw("class", "Entry")
        /\ UNCHANGED <<json, resolve_links, heap, lists, schemaVars,
                       params, requests, convertVars, passVars, reuseVars>>

NextRegister == DefineClass \/ NewClient \/ LookupClass

SpecRegister == InitRegister /\ [][NextRegister]_vars

-----------------------------------------------------------------------------
(* convert_value on its own: a value and a declared type are chosen, the   *)
(* value is converted, and the result is converted once more.              *)

\* The declared types: fields.FieldType subclasses.
FieldTypes ==
    {"Boolean", "Date", "Link", "Location", "Number", "Object", "Symbol", "Text",
     "List", "MultipleAssets", "MultipleEntries"}

\* The Python lists the values of the model refer to: an empty one and one
\* of a single string.
ConvLists ==
    (ListId(NoneAddr, "empty", "fields") :> << >>)
    @@ (ListId(NoneAddr, "single", "fields") :> << Raw("str", "abc") >>)

\* The values handed to convert_value.
ConvValues ==
    {None, ResourceLink([linkType |-> "Entry", id |-> 1])}
    \cup {Raw("bool", b) : b \in {"True", "False"}}
    \cup {Raw("int", n) : n \in {"0", "12", "20130101"}}
    \cup {Raw("float", f) : f \in {"0.0", "1.5"}}
    \cup {Raw("str", t) : t \in {"", "abc", "true", "12", "{'a': 1}", "{", "2013-11-18"}}
    \cup {Raw("dict", d) : d \in {"{}", "{'a': 1}"}}
    \cup {Raw("datetime", "2013-11-18 00:00:00")}
    \cup {ListRef(lid) : lid \in DOMAIN ConvLists}

InitConvert ==
    /\ json = None
    /\ resolve_links = TRUE
    /\ heap = << >>
    /\ lists = ConvLists
    /\ result = None
    /\ call = "none"
    /\ pc = "start"
    /\ error = "none"
    /\ entry_classes = custom_entries
    /\ factory = [tag |-> "factory", entries_mapping |-> entries_mapping]
    /\ params = << >>
    /\ requests = << >>
    /\ conv_value \in ConvValues
    /\ conv_field \in FieldTypes
    /\ todo = << >>
    /\ visited = << >>
    /\ document = None
    /\ other = None

\* The caller keeps what convert_value returned (r.ok): a list it built is
\* a new Python list.
KeepConverted(r, lid) ==
    IF r.value.tag = "newlist"
    THEN /\ result' = ListRef(lid)
         /\ lists' = (lid :> r.value.elems) @@ lists
    ELSE /\ result' = r.value
         /\ lists' = lists

\* convert_value returned or raised.
ConvertOutcome(r, lid, done) ==
    IF r.ok
    THEN /\ KeepConverted(r, lid)
         /\ pc' = done
         /\ error' = "none"
    ELSE /\ result' = None
         /\ lists' = lists
         /\ pc' = "raised"
         /\ error' = r.error

\* ResourceFactory.convert_value(value, field).
Convert ==
    /\ pc = "start"
    /\ call' = "convert_value"
    /\ ConvertOutcome(ConvertValue(conv_value, conv_field, lists),
                      ListId(NoneAddr, "converted", "cf_cda"), "converted")
    /\ UNCHANGED <<json, resolve_links, heap, schemaVars, params, requests, convertVars, passVars, reuseVars>>

\* ResourceFactory.convert_value(converted, field): the value the first call
\* returned is converted again.
ConvertAgain ==
    /\ pc = "converted"
    /\ call' = "convert_again"
    /\ conv_value' = result
    /\ ConvertOutcome(ConvertValue(result, conv_field, lists),
                      ListId(NoneAddr, "reconverted", "cf_cda"), "reconverted")
    /\ UNCHANGED <<json, resolve_links, heap, schemaVars, params, requests, conv_field, passVars, reuseVars>>

NextConvert == Convert \/ ConvertAgain

SpecConvert == InitConvert /\ [][NextConvert]_vars

-----------------------------------------------------------------------------
(* client.py: Client.fetch, RequestArray.where / first / all and           *)
(* Client.resolve, against a server that answers every request with a page *)
(* of the matching resources.                                              *)

\* The classes of resources.py and the registered custom class.
ResourceClasses == {"Asset", "ContentType", "Entry", "Space", "Cat"}

\* issubclass(clz, Entry); issubclass raises TypeError when clz is None.
IsEntryClass(clz) == clz \in {"Entry", "Cat"}

\* utils.path_for_class(clz): None for a class that has no collection path.
PathForClass(clz) ==
    CASE clz = "Asset"       -> "PATH_ASSETS"
      [] clz = "ContentType" -> "PATH_CONTENT_TYPES"
      [] IsEntryClass(clz)   -> "PATH_ENTRIES"
      [] OTHER               -> "None"

\* utils.class_for_type(resource_type): None for any other tag.
ClassForType(resource_type) ==
    IF resource_type \in {"Asset", "ContentType", "Entry", "Space"}
    THEN resource_type
    ELSE "None"

\* Client.fetch(resource_class): the params of the RequestArray it builds.
Fetch(resource_class) ==
    IF resource_class = "None" THEN Raised("TypeError")
    ELSE IF IsEntryClass(resource_class)
    THEN Returned(IF resource_class = Cat.name
                  THEN << <<"content_type", Cat.content_type>> >>
                  ELSE << >>)
    ELSE IF PathForClass(resource_class) = "None" THEN Raised("Exception")
    ELSE Returned(<< >>)

\* The nodes the server holds.
ClientNodes ==
    {EntryNode(i, ct, << >>) : i \in Ids, ct \in ContentTypes}
    \cup {AssetNode(i) : i \in Ids}
    \cup {ContentTypeNode(1)}

Min(a, b) == IF a < b THEN a ELSE b
Max(a, b) == IF a > b THEN a ELSE b

\* A node matches the query parameters sys.id and content_type.
Matches(node, ps) ==
    /\ DictHas(ps, "sys.id") => node.sys.id = DictGet(ps, "sys.id", 0)
    /\ DictHas(ps, "content_type") =>
          /\ node.sys.type = "Entry"
          /\ node.sys.contentType = DictGet(ps, "content_type", "")

\* The Array responses the server may give to a request with parameters ps:
\* `total` matching resources, of which the page after `skip` of at most
\* `limit` is in items.
Responses(ps) ==
    {doc \in [items : SeqsOf(ClientNodes, 0, MaxItems), includes : {<< >>}, total : 0..MaxItems] :
        /\ Len(doc.items) = Min(DictGet(ps, "limit", MaxItems),
                                Max(0, doc.total - DictGet(ps, "skip", 0)))
        /\ \A i \in DOMAIN doc.items : Matches(doc.items[i], ps)}

\* RequestArray.first(), line 281, on the array `array` decoded from doc;
\* the resources of the response are new objects after those of h.
FirstOf(doc, array, h) ==
    IF ~array.ok THEN [ok |-> FALSE, error |-> array.error, value |-> None, heap |-> h]
    ELSE IF doc.total > 0
    THEN IF Len(array.items) = 0
         THEN [ok |-> FALSE, error |-> "IndexError", value |-> None, heap |-> h \o array.heap]
         ELSE [ok |-> TRUE, error |-> "none",
               value |-> Ref(Len(h) + array.items[1]), heap |-> h \o array.heap]
    ELSE [ok |-> TRUE, error |-> "none", value |-> None, heap |-> h \o array.heap]

\* The client with no request built yet.
InitClient ==
    /\ json = None
    /\ resolve_links \in BOOLEAN
    /\ heap = << >>
    /\ lists = << >>
    /\ result = None
    /\ call = "none"
    /\ pc = "new"
    /\ error = "none"
    /\ entry_classes = custom_entries
    /\ factory = [tag |-> "factory", entries_mapping |-> entries_mapping]
    /\ params = << >>
    /\ requests = << >>
    /\ conv_value = None
    /\ conv_field = "none"
    /\ todo = << >>
    /\ visited = << >>
    /\ document = None
    /\ other = None

\* Client.fetch(resource_class).
ClientFetch ==
    /\ pc = "new"
    /\ call' = "fetch"
    /\ \E resource_class \in ResourceClasses :
          IF Fetch(resource_class).ok
          THEN /\ params' = Fetch(resource_class).value
               /\ pc' = "start"
               /\ error' = "none"
          ELSE /\ params' = params
               /\ pc' = "raised"
               /\ error' = Fetch(resource_class).error
    /\ UNCHANGED <<json, resolve_links, heap, lists, result, requests, schemaVars, convertVars, passVars, reuseVars>>

\* The parameters handed to where().
WhereParams == {<<"limit", 2>>, <<"skip", 0>>, <<"skip", 1>>}

\* RequestArray.where(params): self.params = dict(self.params, **params).
RequestArrayWhere ==
    /\ pc = "start"
    /\ call' = "where"
    /\ \E p \in WhereParams : params' = DictSet(params, p[1], p[2])
    /\ UNCHANGED <<json, resolve_links, heap, lists, result, pc, error, requests,
                   schemaVars, convertVars, passVars, reuseVars>>

\* first() returned or raised.
FirstOutcome(r) ==
    /\ result' = r.value
    /\ heap' = r.heap
    /\ pc' = IF r.ok THEN "first_returned" ELSE "raised"
    /\ error' = r.error

\* RequestArray.first(): self.params['limit'] = 1; result = self.invoke();
\* return result.items[0] if result.total > 0 else None.
RequestArrayFirst ==
    /\ pc = "start"
    /\ call' = "first"
    /\ params' = DictSet(params, "limit", 1)
    /\ requests' = Append(requests, params')
    /\ \E doc \in Responses(DictSet(params, "limit", 1)) :
          /\ json' = doc
          /\ FirstOutcome(FirstOf(doc, CreateArray(doc), heap))
    /\ UNCHANGED <<resolve_links, lists, schemaVars, convertVars, passVars, reuseVars>>

\* RequestArray.all() of the request built so far.
RequestArrayAll ==
    /\ pc = "start"
    /\ call' = "all"
    /\ requests' = Append(requests, params)
    /\ \E doc \in Responses(params) :
          /\ json' = doc
          /\ ResolveIfConfigured(CreateArray(doc))
    /\ UNCHANGED <<resolve_links, params, schemaVars, convertVars, passVars, reuseVars>>

\* The frame of a resolve() call: its arguments and what it returned.
ResolveFrame(link_resource_type, resource_id, array, v) ==
    [tag |-> "resolve", link_resource_type |-> link_resource_type,
     resource_id |-> resource_id, array |-> array, value |-> v]

\* Client.resolve raised e.
ResolveRaised(frame, e) ==
    /\ result' = frame
    /\ pc' = "raised"
    /\ error' = e
    /\ UNCHANGED <<json, heap, params, requests>>

\* Client.resolve, lines 129-131: self.fetch(clz).where({'sys.id':
\* resource_id}).first(), with ps the params of the request fetch() built.
ResolveByRequest(frame, ps) ==
    /\ params' = DictSet(DictSet(ps, "sys.id", frame.resource_id), "limit", 1)
    /\ requests' = Append(requests, params')
    /\ \E doc \in Responses(DictSet(DictSet(ps, "sys.id", frame.resource_id), "limit", 1)) :
          /\ json' = doc
          /\ heap' = FirstOf(doc, CreateArray(doc), heap).heap
          /\ error' = FirstOf(doc, CreateArray(doc), heap).error
          /\ pc' = IF FirstOf(doc, CreateArray(doc), heap).ok
                   THEN "resolve_returned" ELSE "raised"
          /\ result' = [frame EXCEPT !.value = FirstOf(doc, CreateArray(doc), heap).value]

\* Client.resolve, lines 129-131: result is None.
ResolveFallback(frame) ==
    IF Fetch(ClassForType(frame.link_resource_type)).ok
    THEN ResolveByRequest(frame, Fetch(ClassForType(frame.link_resource_type)).value)
    ELSE ResolveRaised(frame, Fetch(ClassForType(frame.link_resource_type)).error)

\* Client.resolve, lines 125-127: container = array.items_mapped.get(type);
\* result = container.get(resource_id).
ResolveInArray(frame) ==
    IF frame.link_resource_type \notin DOMAIN frame.array.items_mapped
    THEN ResolveRaised(frame, "AttributeError")
    ELSE IF DictHas(frame.array.items_mapped[frame.link_resource_type], frame.resource_id)
    THEN /\ result' = [frame EXCEPT !.value =
                          Ref(DictGet(frame.array.items_mapped[frame.link_resource_type],
                                      frame.resource_id, NoneAddr))]
         /\ pc' = "resolve_returned"
         /\ error' = "none"
         /\ UNCHANGED <<json, heap, params, requests>>
    ELSE ResolveFallback(frame)

\* Client.resolve(link_resource_type, resource_id, array=None): with an
\* array that a request returned, or with none.
ClientResolve ==
    /\ pc \in {"new", "decoded", "resolved"}
    /\ call' = "resolve"
    /\ \E link_resource_type \in ResourceType, resource_id \in Ids :
          IF pc = "new"
          THEN ResolveFallback(ResolveFrame(link_resource_type, resource_id, None, None))
          ELSE ResolveInArray(ResolveFrame(link_resource_type, resource_id, result, None))
    /\ UNCHANGED <<resolve_links, lists, schemaVars, convertVars, passVars, reuseVars>>

NextClient ==
    ClientFetch \/ RequestArrayWhere \/ RequestArrayFirst \/ RequestArrayAll \/ ClientResolve

SpecClient == InitClient /\ [][NextClient]_vars

-----------------------------------------------------------------------------
(* resources.py: Array.resolve_links, one field slot at a time.  The loops *)
(* of lines 97-99 run over the entries of items_mapped['Entry'], over the  *)
(* two field dicts of each, and over the keys of each dict; a slot is      *)
(* <<address, dict, key>>.                                                 *)

\* Field mappings whose links form chains and cycles among three entries.
PassFieldMaps ==
    {[bestFriend |-> JLink("Entry", j)] : j \in LinkIds}
    \cup {[bestFriend |-> JLink("ContentType", 1)]}
    \cup {[bestFriend |-> JLink("Entry", j),
            likes |-> JList(<< JLink("Entry", j), JLink("Entry", 3) >>)] : j \in Ids}

\* The entry nodes with id i: of the registered content type with any of the
\* field mappings, or of the other content type with a link to entry 1.
PassNodes(i) ==
    {EntryNode(i, "cat", m) : m \in PassFieldMaps}
    \cup {EntryNode(i, "dog", [bestFriend |-> JLink("Entry", 1)])}

\* Array responses with entries 1..n listed, n up to MaxItems, and entry 3
\* included or not.
PassDocuments ==
    {[items |-> it, includes |-> inc] :
        it \in UNION {{f \in [1..n -> UNION {PassNodes(i) : i \in 1..n}] :
                          \A i \in 1..n : f[i].sys.id = i} : n \in 1..MaxItems},
        inc \in {<< >>} \cup {[Entry |-> << e >>] : e \in PassNodes(3)}}

\* for dct in [getattr(resource, '_cf_cda', {}), resource.fields]: for k, v in
\* dct.items(): the slots of dict c of the resource at addr, in order.
SlotsOfDict(h, addr, c) ==
    IF c \in DOMAIN h[addr]
    THEN [i \in 1..Len(KeysOf(h[addr][c])) |-> << addr, c, KeysOf(h[addr][c])[i] >>]
    ELSE << >>

SlotsOfResource(h, addr) == SlotsOfDict(h, addr, "cf_cda") \o SlotsOfDict(h, addr, "fields")

\* for resource in self.items_mapped['Entry'].values(), from the i-th on.
RECURSIVE SlotsFrom(_, _, _)
SlotsFrom(h, resources, i) ==
    IF i > Len(resources) THEN << >>
    ELSE SlotsOfResource(h, resources[i]) \o SlotsFrom(h, resources, i + 1)

\* A variant of the loops that goes on into the fields of the resource a slot
\* was resolved to.
SlotsAfterChasing(rest, S, slot) ==
    IF IsRef(S.heap[slot[1]][slot[2]][slot[3]])
    THEN SlotsOfResource(S.heap, S.heap[slot[1]][slot[2]][slot[3]].addr) \o rest
    ELSE rest

\* The slots left after `slot` was visited, leaving S: the loops go on with
\* the next key, dict or entry, whatever the slot holds now.
SlotsAfter(rest, S, slot) == rest

InitPass ==
    /\ json \in PassDocuments
    /\ resolve_links = FALSE
    /\ heap = << >>
    /\ lists = << >>
    /\ result = None
    /\ call = "none"
    /\ pc = "start"
    /\ error = "none"
    /\ entry_classes = custom_entries
    /\ factory = [tag |-> "factory", entries_mapping |-> entries_mapping]
    /\ params = << >>
    /\ requests = << >>
    /\ conv_value = None
    /\ conv_field = "none"
    /\ todo = << >>
    /\ visited = << >>
    /\ document = None
    /\ other = None

\* resolve_links() is called on the array invoke() returned: the loops are
\* set up.
BeginResolveLinks ==
    /\ pc = "decoded"
    /\ call' = "resolve_links"
    /\ todo' = SlotsFrom(heap, DictValues(result.items_mapped.Entry), 1)
    /\ visited' = << >>
    /\ pc' = IF todo' = << >> THEN "resolved" ELSE "resolving"
    /\ UNCHANGED <<json, resolve_links, heap, lists, result, error, params, requests,
                   schemaVars, convertVars, reuseVars>>

\* The body of the loops, lines 100-111, has run for `slot` and left S.
StepOutcome(S, slot) ==
    /\ heap' = S.heap
    /\ lists' = S.lists
    /\ error' = S.error
    /\ visited' = Append(visited, slot)
    /\ todo' = IF S.ok THEN SlotsAfter(Tail(todo), S, slot) ELSE << >>
    /\ pc' = IF ~S.ok THEN "raised"
             ELSE IF todo' = << >> THEN "resolved" ELSE "resolving"

\* One iteration of the innermost dict loop of resolve_links.
ResolveStep ==
    /\ pc = "resolving"
    /\ StepOutcome(ResolveSlot([ok |-> TRUE, error |-> "none", heap |-> heap, lists |-> lists],
                               result.items_mapped, Head(todo)[1], Head(todo)[2], Head(todo)[3],
                               heap[Head(todo)[1]][Head(todo)[2]][Head(todo)[3]]),
                   Head(todo))
    /\ UNCHANGED <<json, resolve_links, result, call, params, requests,
                   schemaVars, convertVars, reuseVars>>

NextPass == Invoke \/ BeginResolveLinks \/ ResolveStep

\* The pass is a running method call: it takes its next step.
SpecPass == InitPass /\ [][NextPass]_vars /\ WF_vars(ResolveStep)

-----------------------------------------------------------------------------
(* A caller that keeps a parsed JSON document and hands it to from_json    *)
(* more than once.  create_entry takes fields = json['fields'] and stores  *)
(* it as result.fields: the `fields` dict of an entry is the dict of the   *)
(* document's node, one object.  The nodes here hold scalar fields only.   *)

\* A ContentType node with the metadata of one field.
ContentTypeFieldsNode(id) ==
    [sys |-> [type |-> "ContentType", id |-> id],
     fields |-> << [id |-> "name", type |-> "Text"] >>]

ReuseNodes ==
    {EntryNode(i, ct, f) : i \in Ids, ct \in ContentTypes,
                           f \in {<< >>} \cup {[bestFriend |-> JLink("Entry", j)] : j \in Ids}}
    \cup {AssetNode(1), ContentTypeFieldsNode(1)}

ReuseDocuments ==
    {[items |-> it, includes |-> << >>] : it \in SeqsOf(ReuseNodes, 1, MaxItems)}

\* create_content_type, line 126: del field['id'].
DelId(field) == [k \in DOMAIN field \ {"id"} |-> field[k]]

\* The node as decoding it leaves it: create_entry, lines 76-84, writes the
\* placeholders into json['fields']; create_content_type, lines 124-127,
\* deletes the 'id' of every field dict.
NodeAfterDecoding(node) ==
    CASE node.sys.type = "Entry" ->
            [node EXCEPT !.fields = ExtractLinksOfFields(node.fields, NoneAddr)]
      [] node.sys.type = "ContentType" ->
            [node EXCEPT !.fields = [j \in DOMAIN node.fields |-> DelId(node.fields[j])]]
      [] OTHER -> node

DocumentAfterDecoding(doc) ==
    [doc EXCEPT !.items = [i \in DOMAIN doc.items |-> NodeAfterDecoding(doc.items[i])]]

\* create_content_type, line 125: field_id = field['id'] raises KeyError for
\* a field dict without 'id'.
ContentTypeRaises(doc) ==
    \E i \in DOMAIN doc.items :
        /\ doc.items[i].sys.type = "ContentType"
        /\ \E j \in DOMAIN doc.items[i].fields : "id" \notin DOMAIN doc.items[i].fields[j]

\* from_json(doc) for the document as it is now.
FromJsonOf(doc) ==
    IF ContentTypeRaises(doc)
    THEN [CreateArray(doc) EXCEPT !.ok = FALSE, !.error = "KeyError"]
    ELSE CreateArray(doc)

\* The array with its resources at the addresses after the first n.
ShiftArray(array, n) ==
    [items |-> [i \in DOMAIN array.items |-> array.items[i] + n],
     items_mapped |->
        [kind \in DOMAIN array.items_mapped |->
            [i \in DOMAIN array.items_mapped[kind] |->
                << array.items_mapped[kind][i][1], array.items_mapped[kind][i][2] + n >>]]]

\* The entries of `second` hold as `fields` the dict of the entry of `first`
\* decoded from the same node.
WithSharedFields(h, first, second) ==
    [a \in DOMAIN h |->
        IF IsEntry(h[a]) /\ \E i \in DOMAIN second.items : second.items[i] = a
        THEN [h[a] EXCEPT !.fields =
                 h[first.items[CHOOSE i \in DOMAIN second.items : second.items[i] = a]].fields]
        ELSE h[a]]

\* The nodes of the document hold as `fields` the dict of the entry of
\* `first` decoded from them.
DocumentSharing(doc, h, first) ==
    [doc EXCEPT !.items =
        [i \in DOMAIN doc.items |->
            IF doc.items[i].sys.type = "Entry"
            THEN [doc.items[i] EXCEPT !.fields = h[first.items[i]].fields]
            ELSE doc.items[i]]]

\* json is the document as the caller parsed it.
InitReuse ==
    /\ json \in ReuseDocuments
    /\ document = json
    /\ resolve_links = FALSE
    /\ heap = << >>
    /\ lists = << >>
    /\ result = None
    /\ call = "none"
    /\ pc = "start"
    /\ error = "none"
    /\ entry_classes = custom_entries
    /\ factory = [tag |-> "factory", entries_mapping |-> entries_mapping]
    /\ params = << >>
    /\ requests = << >>
    /\ conv_value = None
    /\ conv_field = "none"
    /\ todo = << >>
    /\ visited = << >>
    /\ other = None

\* resource_factory.from_json(document).
FromJsonKept ==
    /\ pc = "start"
    /\ call' = "from_json"
    /\ ReturnDecoded(FromJsonOf(document))
    /\ document' = DocumentAfterDecoding(document)
    /\ UNCHANGED <<json, resolve_links, params, requests, schemaVars, convertVars,
                   passVars, other>>

\* The second array was decoded, or the call raised.
SecondDecoded(array) ==
    IF array.ok
    THEN /\ other' = ShiftArray(ArrayOf(array), Len(heap))
         /\ heap' = heap \o array.heap
         /\ pc' = "decoded_twice"
         /\ error' = "none"
    ELSE /\ other' = None
         /\ heap' = heap
         /\ pc' = "raised"
         /\ error' = array.error

\* resource_factory.from_json(document), the same document once more.
FromJsonKeptAgain ==
    /\ pc = "decoded"
    /\ call' = "from_json_again"
    /\ SecondDecoded(FromJsonOf(document))
    /\ document' = DocumentAfterDecoding(document)
    /\ UNCHANGED <<json, resolve_links, lists, result, params, requests, schemaVars,
                   convertVars, passVars>>

\* resolve_links has run on the first array and left S.
SharedResolved(S) ==
    /\ heap' = WithSharedFields(S.heap, result, other)
    /\ document' = DocumentSharing(document, S.heap, result)
    /\ lists' = S.lists
    /\ pc' = IF S.ok THEN "resolved" ELSE "raised"
    /\ error' = S.error

\* Array.resolve_links() on the first of the two arrays.
ResolveLinksOfFirst ==
    /\ pc = "decoded_twice"
    /\ call' = "resolve_links"
    /\ SharedResolved(ArrayResolveLinks(result.items_mapped, heap, lists))
    /\ UNCHANGED <<json, resolve_links, result, params, requests, schemaVars,
                   convertVars, passVars, other>>

NextReuse == FromJsonKept \/ FromJsonKeptAgain \/ ResolveLinksOfFirst

SpecReuse == InitReuse /\ [][NextReuse]_vars

-----------------------------------------------------------------------------
(* Vocabulary of the properties.                                           *)

\* The array as create_array built it from the document, before any pass.
Decoded == CreateArray(json)

\* A call has returned an array, and its links are still to be resolved.
Returned_Decoded == pc = "decoded"

\* A resolve_links pass over the returned array has run to its end.
Returned_Resolved == pc = "resolved"

\* The objects stored under items_mapped['Entry'].
MappedEntries(im) == {im.Entry[i][2] : i \in DOMAIN im.Entry}

\* The resource (kind, id) names in the index, NoneAddr when there is none.
TargetOf(im, kind, id) ==
    IF kind \in {"Asset", "Entry"} /\ \E i \in DOMAIN im[kind] : im[kind][i][1] = id
    THEN im[kind][CHOOSE i \in DOMAIN im[kind] : im[kind][i][1] = id][2]
    ELSE NoneAddr

\* The target of a placeholder.
TargetOfLink(im, link) == TargetOf(im, link.link_type, link.resource_id)

\* The two field containers of an entry.
Containers == {"cf_cda", "fields"}

\* The field type the class of the entry at addr declares for field id k,
\* "none" when the entry is generic or the class declares no such field.
DeclaredType(h, addr, k) ==
    IF \E i \in DOMAIN custom_entries :
          /\ custom_entries[i].name = h[addr].cls
          /\ \E j \in DOMAIN custom_entries[i].entry_fields :
                custom_entries[i].entry_fields[j].field_id = k
    THEN LET c == CHOOSE i \in DOMAIN custom_entries : custom_entries[i].name = h[addr].cls
             efs == custom_entries[c].entry_fields
         IN  efs[CHOOSE j \in DOMAIN efs : efs[j].field_id = k].field_type
    ELSE "none"

\* Field k of the JSON node entry A was decoded from is a link to the entry
\* stored in the index as B.
LinksTo(im, h, A, k, B) ==
    /\ k \in DOMAIN h[A].raw_fields
    /\ h[A].raw_fields[k] = JLink("Entry", h[B].sys.id)
    /\ TargetOf(im, "Entry", h[B].sys.id) = B

\* A and B, both in items_mapped['Entry'], link to each other through
\* fields k1 and k2.
Cycle(im, h, A, k1, B, k2) ==
    /\ A \in MappedEntries(im)
    /\ B \in MappedEntries(im)
    /\ LinksTo(im, h, A, k1, B)
    /\ LinksTo(im, h, B, k2, A)

FieldIds == {FieldOrder[i] : i \in DOMAIN FieldOrder}

-----------------------------------------------------------------------------
(* C1: when entries A and B of items_mapped['Entry'] link to each other,   *)
(* then after resolve_links has run A's field holds the very object B and  *)
(* B's field holds the very object A (so A.field.field is A), in `fields`  *)
(* and, where the entry's class declares the field as a Link, in the typed *)
(* storage _cf_cda as well.                                                *)
CyclicResolution ==
    Returned_Resolved =>
        \A A \in DOMAIN heap, B \in DOMAIN heap, k1 \in FieldIds, k2 \in FieldIds :
            Cycle(result.items_mapped, heap, A, k1, B, k2) =>
                /\ heap[A].fields[k1] = Ref(B)
                /\ heap[B].fields[k2] = Ref(A)
                /\ heap[heap[A].fields[k1].addr].fields[k2] = Ref(A)
                /\ DeclaredType(heap, A, k1) = "Link" =>
                      /\ k1 \in DOMAIN heap[A].cf_cda
                      /\ heap[A].cf_cda[k1] = Ref(B)
                      /\ heap[heap[A].cf_cda[k1].addr].fields[k2] = Ref(A)

\* Two different entries, the first of a registered class, were resolved
\* into each other.
CyclicResolutionWitness ==
    /\ Returned_Resolved
    /\ \E A \in DOMAIN heap, B \in DOMAIN heap :
          /\ A # B
          /\ Cycle(result.items_mapped, heap, A, "bestFriend", B, "bestFriend")
          /\ heap[A].cls = "Cat"
          /\ heap[A].cf_cda["bestFriend"] = Ref(B)
          /\ heap[B].fields["bestFriend"] = Ref(A)

\* The elements of `items` that are entries.
ListedEntries(items, h) ==
    {items[i] : i \in {j \in DOMAIN items : items[j] # NoneAddr /\ IsEntry(h[items[j]])}}

\* Field k of the JSON node the entry at addr was decoded from is a link
\* shape whose target is in the index.
ResolvableField(im, h, addr, k) ==
    /\ h[addr].raw_fields[k].tag = "jlink"
    /\ TargetOf(im, h[addr].raw_fields[k].linkType, h[addr].raw_fields[k].id) # NoneAddr

\* The target of the link shape field k was decoded from.
FieldTarget(im, h, addr, k) ==
    TargetOf(im, h[addr].raw_fields[k].linkType, h[addr].raw_fields[k].id)

(* C2: after resolve_links has run, every scalar link field of every entry *)
(* of the array, an element of `items` or a value of items_mapped['Entry'], *)
(* whose target is in items_mapped holds that very object, also when two   *)
(* listed entries share an id or includes repeats the id of a listed one.  *)
EveryLinkOfTheArrayResolved ==
    Returned_Resolved =>
        \A a \in ListedEntries(result.items, heap) \cup MappedEntries(result.items_mapped) :
            \A k \in DOMAIN heap[a].raw_fields :
                ResolvableField(result.items_mapped, heap, a, k) =>
                    heap[a].fields[k] = Ref(FieldTarget(result.items_mapped, heap, a, k))

\* A placeholder of kind Asset or Entry that names nothing in the index.
Unresolvable(im, v) ==
    /\ IsResourceLink(v)
    /\ v.link_type \in {"Asset", "Entry"}
    /\ TargetOfLink(im, v) = NoneAddr

\* A placeholder that names a resource of the index.
Resolvable(im, v) ==
    /\ IsResourceLink(v)
    /\ TargetOfLink(im, v) # NoneAddr

(* C3: after resolve_links has run, a slot (of _cf_cda or of fields, or an *)
(* element of a list) that held after decoding a placeholder of kind Asset *)
(* or Entry whose id is no key of items_mapped under that kind still holds *)
(* that placeholder, while every slot of an entry of items_mapped['Entry'] *)
(* that held a placeholder with a target in the index holds that target.   *)
UnresolvedPlaceholderStays ==
    Returned_Resolved =>
        LET D == Decoded
            im == result.items_mapped
        IN  /\ \A a \in MappedEntries(im), c \in Containers :
                  \A k \in DOMAIN D.heap[a][c] :
                      /\ Unresolvable(im, D.heap[a][c][k]) =>
                            heap[a][c][k] = D.heap[a][c][k]
                      /\ Resolvable(im, D.heap[a][c][k]) =>
                            heap[a][c][k] = Ref(TargetOfLink(im, D.heap[a][c][k]))
            /\ \A lid \in DOMAIN D.lists :
                  \A i \in DOMAIN D.lists[lid] :
                      Unresolvable(im, D.lists[lid][i]) =>
                          lists[lid][i] = D.lists[lid][i]

\* An entry of a registered class kept an unresolvable placeholder in both
\* containers while another of its fields, and a field of another entry,
\* were resolved.
UnresolvedPlaceholderStaysWitness ==
    /\ Returned_Resolved
    /\ \E a \in MappedEntries(result.items_mapped), b \in MappedEntries(result.items_mapped) :
          /\ a # b
          /\ heap[a].cls = "Cat"
          /\ DOMAIN heap[a].fields = {"bestFriend", "image"}
          /\ Unresolvable(result.items_mapped, heap[a].fields["bestFriend"])
          /\ Unresolvable(result.items_mapped, heap[a].cf_cda["bestFriend"])
          /\ IsRef(heap[a].fields["image"])
          /\ "bestFriend" \in DOMAIN heap[b].fields
          /\ IsRef(heap[b].fields["bestFriend"])

(* C4: resolve_links never raises on an array decode produced, whatever    *)
(* the target kinds of its placeholders.                                   *)
ResolveLinksNeverRaises ==
    Decoded.ok => pc # "raised"

\* The lists the slots of the entries of items_mapped['Entry'] held after
\* decoding.
MappedLists(D) ==
    {D.heap[a][c][k].lid :
        <<a, c, k>> \in {x \in MappedEntries(D.items_mapped) \X Containers \X FieldIds :
                            /\ x[3] \in DOMAIN D.heap[x[1]][x[2]]
                            /\ IsList(D.heap[x[1]][x[2]][x[3]])}}

(* C5: after resolve_links has run, a sequence field of an entry of        *)
(* items_mapped['Entry'] that held only placeholders with targets in the   *)
(* index holds their targets, element for element, and a sequence field    *)
(* whose first element was no placeholder is exactly as it was decoded,    *)
(* whatever placeholders follow.                                           *)
LeadingElementHeuristic ==
    Returned_Resolved =>
        LET D == Decoded
            im == result.items_mapped
        IN  \A lid \in MappedLists(D) :
                /\ (\A i \in DOMAIN D.lists[lid] : Resolvable(im, D.lists[lid][i])) =>
                      lists[lid] = [i \in DOMAIN D.lists[lid] |->
                                        Ref(TargetOfLink(im, D.lists[lid][i]))]
                /\ (D.lists[lid] # << >> /\ ~IsResourceLink(D.lists[lid][1])) =>
                      lists[lid] = D.lists[lid]

\* One entry holds a sequence of two or more placeholders, now all resolved,
\* and a sequence that starts with a raw value and still holds the
\* placeholder of a resource that is in the index.
LeadingElementHeuristicWitness ==
    /\ Returned_Resolved
    /\ \E a \in MappedEntries(result.items_mapped) :
          /\ DOMAIN heap[a].fields = {"likes", "image"}
          /\ heap[a].cls = "Cat"
          /\ IsList(heap[a].cf_cda["likes"])
          /\ Len(lists[heap[a].fields["likes"].lid]) >= 2
          /\ \A i \in DOMAIN lists[heap[a].fields["likes"].lid] :
                IsRef(lists[heap[a].fields["likes"].lid][i])
          /\ ~IsResourceLink(lists[heap[a].fields["image"].lid][1])
          /\ \E i \in DOMAIN lists[heap[a].fields["image"].lid] :
                Resolvable(result.items_mapped, lists[heap[a].fields["image"].lid][i])

(* C6: after resolve_links has run, in a sequence field whose first        *)
(* element was a placeholder every placeholder element with a target in    *)
(* the index, also one that follows a non-placeholder element, holds its   *)
(* target at its index, and the length of the sequence is unchanged.       *)
EveryPlaceholderOfASequenceResolved ==
    Returned_Resolved =>
        LET D == Decoded
            im == result.items_mapped
        IN  \A lid \in MappedLists(D) :
                (D.lists[lid] # << >> /\ IsResourceLink(D.lists[lid][1])) =>
                    /\ Len(lists[lid]) = Len(D.lists[lid])
                    /\ \A i \in DOMAIN D.lists[lid] :
                          Resolvable(im, D.lists[lid][i]) =>
                              lists[lid][i] = Ref(TargetOfLink(im, D.lists[lid][i]))

\* A call has returned an array.
Returned_Array == pc \in {"decoded", "resolved"}

(* C7: the items of a decoded array are the resources decoded from the     *)
(* nodes of the document's items list, one per node and in its order; no   *)
(* resource decoded from includes is among them.                           *)
ItemsInDocumentOrder ==
    Returned_Array =>
        /\ Len(result.items) = Len(json.items)
        /\ \A i \in DOMAIN result.items :
              /\ result.items[i] = i
              /\ heap[i].sys = json.items[i].sys
              /\ IsEntry(heap[i]) => heap[i].raw_fields = json.items[i].fields

\* Two listed entries in an order that is not the order of their ids, next
\* to an included Asset and an included Entry.
ItemsInDocumentOrderWitness ==
    /\ Returned_Array
    /\ Len(result.items) = 2
    /\ heap[result.items[1]].sys.id = 2
    /\ heap[result.items[2]].sys.id = 1
    /\ IsEntry(heap[result.items[1]]) /\ IsEntry(heap[result.items[2]])
    /\ DOMAIN json.includes = {"Asset", "Entry"}
    /\ Len(result.items_mapped.Asset) = 1
    /\ Len(heap) = 4

(* C8: every Entry or Asset element of a decoded array's items is the very *)
(* object items_mapped holds under its kind and its id, before and after   *)
(* resolve_links.                                                          *)
ListedIsMapped ==
    Returned_Array =>
        \A i \in DOMAIN result.items :
            (IsEntry(heap[result.items[i]]) \/ IsAsset(heap[result.items[i]])) =>
                TargetOf(result.items_mapped,
                         KeyOf(heap[result.items[i]]),
                         heap[result.items[i]].sys.id) = result.items[i]

\* The ids of the nodes of type `kind` in the document's items.
ListedIds(kind) ==
    {json.items[i].sys.id : i \in {j \in DOMAIN json.items : json.items[j].sys.type = kind}}

\* The nodes of includes[kind] of the document.
IncludedNodes(kind) ==
    IF kind \in DOMAIN json.includes THEN json.includes[kind] ELSE << >>

IncludedIds(kind) ==
    {IncludedNodes(kind)[i].sys.id : i \in DOMAIN IncludedNodes(kind)}

\* The last node of includes[kind] with this id.
LastIncluded(kind, id) ==
    LET nodes == IncludedNodes(kind)
        last == CHOOSE i \in DOMAIN nodes :
                    /\ nodes[i].sys.id = id
                    /\ \A j \in DOMAIN nodes : nodes[j].sys.id = id => j <= i
    IN  nodes[last]

Range(f) == {f[i] : i \in DOMAIN f}

(* C9: items_mapped of a decoded array has exactly the buckets Asset and   *)
(* Entry; the keys of a bucket are the ids of the listed nodes of that     *)
(* kind and of the nodes of includes of that kind, each key once; an id    *)
(* that occurs in includes maps to the object decoded from includes, not   *)
(* to a listed one.                                                        *)
MappedBuckets ==
    Returned_Array =>
        /\ DOMAIN result.items_mapped = {"Asset", "Entry"}
        /\ \A kind \in {"Asset", "Entry"} :
              LET bucket == result.items_mapped[kind]
              IN  /\ DictKeys(bucket) = ListedIds(kind) \cup IncludedIds(kind)
                  /\ Cardinality(DictKeys(bucket)) = Len(bucket)
                  /\ \A id \in IncludedIds(kind) :
                        /\ TargetOf(result.items_mapped, kind, id) \notin Range(result.items)
                        /\ heap[TargetOf(result.items_mapped, kind, id)].sys
                              = LastIncluded(kind, id).sys
                        /\ kind = "Entry" =>
                              heap[TargetOf(result.items_mapped, kind, id)].raw_fields
                                  = LastIncluded(kind, id).fields

\* An included entry with the id of a listed entry, but other fields, took
\* the listed entry's place in the bucket.
MappedBucketsWitness ==
    /\ Returned_Array
    /\ \E id \in ListedIds("Entry") \cap IncludedIds("Entry") :
          /\ TargetOf(result.items_mapped, "Entry", id) \notin Range(result.items)
          /\ \E i \in DOMAIN result.items :
                /\ heap[result.items[i]].sys.id = id
                /\ IsEntry(heap[result.items[i]])
                /\ heap[result.items[i]].raw_fields
                      # heap[TargetOf(result.items_mapped, "Entry", id)].raw_fields
    /\ ListedIds("Asset") # {}
    /\ IncludedIds("Asset") # {}

\* No slot and no list element holds a resolved resource.
NothingResolved(h, L) ==
    /\ \A a \in DOMAIN h : IsEntry(h[a]) =>
          \A c \in Containers : \A k \in DOMAIN h[a][c] : ~IsRef(h[a][c][k])
    /\ \A lid \in DOMAIN L : \A i \in DOMAIN L[lid] : ~IsRef(L[lid][i])

\* Every link-shaped value of the document's fields of the entry at addr is
\* in entry.fields the placeholder of that kind and id.
PlaceholdersOf(h, L, addr) ==
    \A k \in DOMAIN h[addr].raw_fields :
        LET raw == h[addr].raw_fields[k]
            v == h[addr].fields[k]
        IN  /\ raw.tag = "jlink" =>
                  /\ IsResourceLink(v)
                  /\ v.link_type = raw.linkType /\ v.resource_id = raw.id
            /\ raw.tag = "jlist" =>
                  /\ IsList(v)
                  /\ Len(L[v.lid]) = Len(raw.elems)
                  /\ \A i \in DOMAIN raw.elems :
                        raw.elems[i].tag = "jlink" =>
                            /\ IsResourceLink(L[v.lid][i])
                            /\ L[v.lid][i].link_type = raw.elems[i].linkType
                            /\ L[v.lid][i].resource_id = raw.elems[i].id

\* The array holds placeholders only.
StillPlaceholders ==
    /\ NothingResolved(heap, lists)
    /\ \A a \in DOMAIN heap : IsEntry(heap[a]) => PlaceholdersOf(heap, lists, a)

PlaceholderOf(raw) ==
    [tag |-> "link", link_type |-> raw.linkType, resource_id |-> raw.id]

\* What the link scan of create_entry is to leave for a JSON value `raw` in
\* slot value v: the placeholder of a complete link shape, the list with the
\* placeholders of its complete link shapes, the raw value otherwise.
Scanned(raw, v, L) ==
    CASE raw.tag = "jlink" -> v = PlaceholderOf(raw)
      [] raw.tag = "jlist" ->
            /\ IsList(v)
            /\ Len(L[v.lid]) = Len(raw.elems)
            /\ \A i \in DOMAIN raw.elems :
                  IF raw.elems[i].tag = "jlink"
                  THEN L[v.lid][i] = PlaceholderOf(raw.elems[i])
                  ELSE L[v.lid][i] = raw.elems[i]
      [] OTHER -> v = raw

(* C11: decoding an entry leaves in its fields the placeholder of every    *)
(* complete link shape, also inside a list, and every other value as the   *)
(* raw JSON value; a link shape that lacks its target kind or its target   *)
(* id is such a raw value, and decoding does not fail on it.               *)
LinkScanLeavesOtherValuesRaw ==
    /\ (call = "invoke" /\ pc = "raised") => error # "KeyError"
    /\ Returned_Decoded =>
          \A a \in DOMAIN heap : IsEntry(heap[a]) =>
              /\ DOMAIN heap[a].fields = DOMAIN heap[a].raw_fields
              /\ \A k \in DOMAIN heap[a].raw_fields :
                    Scanned(heap[a].raw_fields[k], heap[a].fields[k], lists)

\* The classes of custom_entries registered for a content type id.
RegisteredFor(ct) ==
    {i \in DOMAIN custom_entries : custom_entries[i].content_type = ct}

(* C12: an entry decoded from a node whose content type id has a class in  *)
(* custom_entries is an instance of that class; any other entry is a plain *)
(* Entry with no typed storage, whose link fields are placeholders until   *)
(* resolve_links runs.  Both keep the field mapping of the node.           *)
TypedExactlyWhenRegistered ==
    Returned_Array =>
        \A i \in DOMAIN result.items :
            json.items[i].sys.type = "Entry" =>
                LET e == heap[result.items[i]]
                    ct == json.items[i].sys.contentType
                IN  /\ IsEntry(e)
                    /\ RegisteredFor(ct) # {} =>
                          \E c \in RegisteredFor(ct) : e.cls = custom_entries[c].name
                    /\ RegisteredFor(ct) = {} =>
                          /\ e.cls = "Entry"
                          /\ e.cf_cda = << >>
                    /\ e.cls # "Entry" => RegisteredFor(ct) # {}
                    /\ DOMAIN e.fields = DOMAIN json.items[i].fields
                    /\ e.raw_fields = json.items[i].fields
                    /\ Returned_Decoded => PlaceholdersOf(heap, lists, result.items[i])

\* A mixed array: a Cat with a coerced field in its typed storage next to a
\* plain Entry that holds the raw value and a placeholder.
TypedExactlyWhenRegisteredWitness ==
    /\ Returned_Decoded
    /\ Len(result.items) = 2
    /\ json.items[1].sys.type = "Entry" /\ json.items[2].sys.type = "Entry"
    /\ heap[result.items[1]].cls = "Cat"
    /\ "lives" \in DOMAIN heap[result.items[1]].cf_cda
    /\ heap[result.items[1]].cf_cda["lives"] = Raw("int", "12")
    /\ heap[result.items[2]].cls = "Entry"
    /\ heap[result.items[2]].sys.contentType = "dog"
    /\ DOMAIN heap[result.items[2]].fields = {"lives", "bestFriend"}
    /\ heap[result.items[2]].fields["lives"] = Raw("str", "12")
    /\ IsResourceLink(heap[result.items[2]].fields["bestFriend"])

\* Two slot values are the same value: equal, or lists of equal elements.
SameValue(v, w, L) ==
    IF IsList(v) /\ IsList(w) THEN L[v.lid] = L[w.lid] ELSE v = w

(* C13: in an entry of a registered class, every declared field present in *)
(* the node holds the same value in the typed storage (_cf_cda) and in the *)
(* raw field mapping (fields), after decoding and after resolve_links.     *)
TypedAndRawInSync ==
    Returned_Array =>
        \A a \in DOMAIN heap :
            (IsEntry(heap[a]) /\ heap[a].cls # "Entry") =>
                \A k \in DOMAIN heap[a].cf_cda :
                    /\ k \in DOMAIN heap[a].fields
                    /\ SameValue(heap[a].cf_cda[k], heap[a].fields[k], lists)

\* The node is an entry of a registered class with a value for the declared
\* Number field `lives` that is no integer literal.
Malformed(node) ==
    /\ node.sys.type = "Entry"
    /\ RegisteredFor(node.sys.contentType) # {}
    /\ "lives" \in DOMAIN node.fields
    /\ node.fields["lives"].tag = "raw"
    /\ node.fields["lives"].ty = "str"
    /\ node.fields["lives"].v \notin NumericStrings

\* No node of the document holds a link shape that lacks a key.
WellFormedLinks ==
    \A i \in DOMAIN json.items : ~LinkScanRaises(json.items[i].fields)

(* C17: when a declared field of an entry of a registered class cannot be  *)
(* converted, the decoding call raises a FormatError (the format error     *)
(* that names the field) to its caller and returns no entry and no array.  *)
ConversionFailureIsFormatError ==
    (/\ call \in {"invoke", "all"}
     /\ WellFormedLinks
     /\ \E i \in DOMAIN json.items : Malformed(json.items[i])) =>
        /\ pc = "raised"
        /\ result = None
        /\ heap = << >>
        /\ error = "FormatError"

\* The five resource kinds from_json builds.
SupportedKinds == {"Array", "Asset", "ContentType", "Entry", "Space"}

(* C18: a decoding call that meets a node whose type tag is none of the    *)
(* five supported kinds raises instead of returning; no element of the     *)
(* items of a returned array is None.                                      *)
UnsupportedTagRaises ==
    Returned_Array =>
        /\ \A i \in DOMAIN json.items : json.items[i].sys.type \in SupportedKinds
        /\ \A i \in DOMAIN result.items : result.items[i] # NoneAddr

(* C14: a class that FieldOwner accepted as a custom entry class has a     *)
(* content type id that is not empty, the mapping of a constructed client  *)
(* has no empty key and does not hold Entry itself, and the class lookup   *)
(* of create_entry never raises: a bad schema fails when it is registered. *)
RegistrationRejectsBadIdentifier ==
    /\ \A i \in DOMAIN entry_classes :
          entry_classes[i].name # "Entry" =>
              /\ "content_type" \in DOMAIN entry_classes[i]
              /\ entry_classes[i].content_type # ""
    /\ factory # None =>
          \A i \in DOMAIN factory.entries_mapping :
              /\ factory.entries_mapping[i][1] # ""
              /\ factory.entries_mapping[i][2] # EntryClass
    /\ call = "create_entry" => pc # "raised"

\* The values bool() takes for false: the empty string, zero, the empty
\* list, the empty dict and None.
Falsy ==
    {Raw("str", ""), Raw("int", "0"), Raw("float", "0.0"), Raw("dict", "{}"), None,
     ListRef(ListId(NoneAddr, "empty", "fields"))}

(* C15: convert_value with declared type Boolean never raises and returns  *)
(* a bool: the value itself when it is a bool, else False for the empty    *)
(* string, zero, the empty list, the empty dict and None, and True for     *)
(* every other value.                                                      *)
BooleanByTruthiness ==
    (call = "convert_value" /\ conv_field = "Boolean") =>
        /\ pc = "converted"
        /\ result \in {Raw("bool", "True"), Raw("bool", "False")}
        /\ conv_value \in {Raw("bool", "True"), Raw("bool", "False")} =>
              result = conv_value
        /\ conv_value \notin {Raw("bool", "True"), Raw("bool", "False")} =>
              result = Raw("bool", IF conv_value \in Falsy THEN "False" ELSE "True")

\* The string 'true' was converted to True.
BooleanByTruthinessWitness ==
    /\ call = "convert_value"
    /\ conv_field = "Boolean"
    /\ conv_value = Raw("str", "true")
    /\ result = Raw("bool", "True")

\* The value is in the target representation of the declared type.
InTargetRepresentation(v, clz) ==
    CASE clz = "Boolean" -> IsInstance(v, "bool")
      [] clz = "Number" -> IsInstance(v, "int")
      [] clz \in {"Text", "Symbol"} -> IsInstance(v, "str")
      [] clz = "Object" -> IsInstance(v, "dict")
      [] clz = "Date" -> IsInstance(v, "datetime")
      [] clz \in {"List", "MultipleAssets", "MultipleEntries"} -> IsInstance(v, "list")
      [] OTHER -> FALSE

(* C16: convert_value returns a value that is already in the target        *)
(* representation of the declared type as it is, and converting what a     *)
(* successful conversion returned, with the same declared type, succeeds   *)
(* and returns that same value.                                            *)
CoercionIdempotent ==
    /\ (call = "convert_value" /\ InTargetRepresentation(conv_value, conv_field)) =>
          /\ pc = "converted"
          /\ result = conv_value
    /\ call = "convert_again" =>
          /\ pc = "reconverted"
          /\ result = conv_value

\* The last request sent.
LastRequest == requests[Len(requests)]

(* C20: first() sends the request with limit 1, whatever limit where() set, *)
(* and returns the first element of the items of the response, or None     *)
(* when the response holds no item; it does not raise on a response.       *)
FirstNeverRaises ==
    call = "first" =>
        /\ DictGet(LastRequest, "limit", 0) = 1
        /\ pc = "first_returned"
        /\ result = IF Len(json.items) = 0 THEN None ELSE Ref(1)
        /\ Len(json.items) > 0 => heap[1].sys = json.items[1].sys

\* resolve() was given an array that holds the resource asked for.
InTheArray(frame) ==
    /\ frame.array # None
    /\ frame.link_resource_type \in DOMAIN frame.array.items_mapped
    /\ DictHas(frame.array.items_mapped[frame.link_resource_type], frame.resource_id)

\* The link types whose resources the API serves by id.
FetchableTypes == {"Asset", "ContentType", "Entry"}

(* C19: for a link type of a resource the API serves, resolve() returns    *)
(* the object the array holds under the link type and the id without       *)
(* sending a request; when the array does not hold it, also when it has no *)
(* bucket for the link type, or when no array is given, it sends a request *)
(* for the id and does not raise.                                          *)
ResolveLooksInArrayFirst ==
    (call = "resolve" /\ result.link_resource_type \in FetchableTypes) =>
        /\ pc = "resolve_returned"
        /\ InTheArray(result) =>
              /\ result.value = Ref(DictGet(result.array.items_mapped[result.link_resource_type],
                                            result.resource_id, NoneAddr))
              /\ Len(requests) = 1
        /\ ~InTheArray(result) =>
              /\ Len(requests) = IF result.array = None THEN 1 ELSE 2
              /\ DictGet(LastRequest, "sys.id", 0) = result.resource_id

\* The field ids the class of a decoded entry declares.
DeclaredFieldIds(obj) ==
    UNION {{custom_entries[i].entry_fields[j].field_id :
                j \in DOMAIN custom_entries[i].entry_fields} :
           i \in RegisteredFor(obj.sys.contentType)}

\* v is a placeholder, or a list that holds placeholders only.
PlaceholderValue(v, L) ==
    \/ IsResourceLink(v)
    \/ /\ IsList(v)
       /\ Len(L[v.lid]) > 0
       /\ \A i \in DOMAIN L[v.lid] : IsResourceLink(L[v.lid][i])

(* C21: in a decoded entry of a registered class, a declared field whose   *)
(* value after the link scan is a placeholder, or a list of placeholders,  *)
(* holds that same placeholder, or that same list, in the typed storage,   *)
(* whatever type the class declares for the field.                         *)
PlaceholdersPassCoercion ==
    Returned_Decoded =>
        \A a \in DOMAIN heap :
            (IsEntry(heap[a]) /\ heap[a].cls # "Entry") =>
                \A k \in DeclaredFieldIds(heap[a]) \cap DOMAIN heap[a].fields :
                    PlaceholderValue(heap[a].fields[k], lists) =>
                        /\ k \in DOMAIN heap[a].cf_cda
                        /\ heap[a].cf_cda[k] = heap[a].fields[k]

\* The pass has ended: resolve_links returned or raised.
PassEnded == call = "resolve_links" /\ pc \in {"resolved", "raised"}

\* No slot was visited twice, every visited slot is a slot of an entry of
\* items_mapped['Entry'], and a pass that ended has left what the loops of
\* resolve_links leave.
SinglePass ==
    /\ \A i, j \in DOMAIN visited : visited[i] = visited[j] => i = j
    /\ \A i \in DOMAIN visited : visited[i][1] \in MappedEntries(result.items_mapped)
    /\ PassEnded =>
          /\ heap = ArrayResolveLinks(result.items_mapped, Decoded.heap, Decoded.lists).heap
          /\ lists = ArrayResolveLinks(result.items_mapped, Decoded.heap, Decoded.lists).lists
          /\ (pc = "resolved") =
                ArrayResolveLinks(result.items_mapped, Decoded.heap, Decoded.lists).ok

(* C22: resolve_links ends on every decoded array, whatever cycles its     *)
(* links form: it visits no field slot of a dict twice, visits only slots  *)
(* of entries of items_mapped['Entry'], and a pass that has started ends.  *)
ResolveLinksTerminates ==
    /\ []SinglePass
    /\ (pc = "resolving") ~> PassEnded

\* The pass has ended on three entries whose bestFriend links form a cycle
\* of length three, each resolved to the next.
ResolveLinksTerminatesWitness ==
    /\ PassEnded
    /\ pc = "resolved"
    /\ \E a, b, c \in MappedEntries(result.items_mapped) :
          /\ a # b /\ b # c /\ a # c
          /\ heap[a].fields.bestFriend = Ref(b)
          /\ heap[b].fields.bestFriend = Ref(c)
          /\ heap[c].fields.bestFriend = Ref(a)
          /\ \A x \in {a, b, c} : << x, "fields", "bestFriend" >> \in Range(visited)

\* What the first pass of resolve_links left of the decoded array D.
FirstPass(D) == ArrayResolveLinks(D.items_mapped, D.heap, D.lists)

\* The heap h and the lists L hold what F holds, and every placeholder of D
\* without a target in the index im is still in its slot.
SameAsAfterFirstPass(D, F, im, h, L) ==
    /\ h = F.heap
    /\ L = F.lists
    /\ \A a \in MappedEntries(im), c \in Containers :
          \A k \in DOMAIN D.heap[a][c] :
              Unresolvable(im, D.heap[a][c][k]) => h[a][c][k] = D.heap[a][c][k]
    /\ \A lid \in DOMAIN D.lists :
          \A i \in DOMAIN D.lists[lid] :
              Unresolvable(im, D.lists[lid][i]) => L[lid][i] = D.lists[lid][i]

(* C23: a second resolve_links on an array whose links were resolved        *)
(* returns and leaves every field slot and every list element, of typed    *)
(* and of raw storage, as the first pass left it: what was resolved stays   *)
(* resolved and a placeholder without a target stays that placeholder.     *)
ResolveLinksIdempotent ==
    call = "resolve_links_again" =>
        /\ pc = "resolved"
        /\ SameAsAfterFirstPass(Decoded, FirstPass(Decoded), result.items_mapped, heap, lists)

\* The second pass has run on an array with a list that holds a placeholder
\* without a target and with a resolved scalar field.
ResolveLinksIdempotentWitness ==
    /\ call = "resolve_links_again"
    /\ \E lid \in DOMAIN lists :
          \E i \in DOMAIN lists[lid] : Unresolvable(result.items_mapped, lists[lid][i])
    /\ \E a \in MappedEntries(result.items_mapped) :
          \E k \in DOMAIN heap[a].fields : IsRef(heap[a].fields[k])

(* C24: decoding leaves the document as it was handed over; decoding the    *)
(* same document again succeeds and gives resources equal to those of the  *)
(* first decoding, and the raw_fields of every entry, of both decodings,   *)
(* hold the link mappings of the document, no placeholders.                *)
DecodingLeavesDocument ==
    /\ call \in {"from_json", "from_json_again"} => document = json
    /\ call = "from_json_again" =>
          /\ pc = "decoded_twice"
          /\ \A i \in DOMAIN other.items : heap[other.items[i]] = heap[result.items[i]]
    /\ \A a \in DOMAIN heap :
          IsEntry(heap[a]) =>
              \A k \in DOMAIN heap[a].raw_fields : ~IsResourceLink(heap[a].raw_fields[k])

\* The resources of the second array as from_json built them.
SecondAsDecoded == FromJsonOf(DocumentAfterDecoding(json))

(* C25: resolve_links leaves the items and the index of its array, the sys *)
(* and raw_fields of every entry and every Asset as they were decoded, and *)
(* leaves every resource of another array as it was decoded.               *)
ResolveLinksFrame ==
    (call = "resolve_links" /\ other # None) =>
        /\ result = ArrayOf(Decoded)
        /\ \A a \in DOMAIN Decoded.heap :
              /\ heap[a].sys = Decoded.heap[a].sys
              /\ IsEntry(heap[a]) => heap[a].raw_fields = Decoded.heap[a].raw_fields
              /\ IsAsset(heap[a]) => heap[a] = Decoded.heap[a]
        /\ \A i \in DOMAIN other.items :
              heap[other.items[i]] = SecondAsDecoded.heap[SecondAsDecoded.items[i]]

=============================================================================
